---------------------------- MODULE Spec2Model ----------------------------
(***************************************************************************)
(* A model of "drops" (rain on a puddle): the intensity state, the wind    *)
(* field and its noise table, the ripple pool, the renderer's dither pass,  *)
(* the audio engine with the rain synth and the ambience scheduler, and the *)
(* entry point's handlers (frame loop, start/stop/toggle, reseed, click and *)
(* key handlers).                                                           *)
(*                                                                         *)
(* Numbers.  JavaScript numbers are modelled as fixed-point integers with  *)
(* six decimals: the real r is the integer r * FP.  Seconds therefore      *)
(* appear as microseconds, pixels as micro-pixels, and an opacity or an    *)
(* intensity of 1.0 as 1000000.  Products and quotients are computed by    *)
(* Mul and Div, which keep every intermediate value inside 32 bits.        *)
(***************************************************************************)
EXTENDS Integers, Sequences, FiniteSets, TLC

----------------------------------------------------------------------------
(* Fixed-point arithmetic                                                  *)

FP == 10^6

Abs(a) == IF a < 0 THEN -a ELSE a

Sign(a) == IF a < 0 THEN -1 ELSE 1

Min(a, b) == IF a < b THEN a ELSE b

Max(a, b) == IF a > b THEN a ELSE b

\* a * b for non-negative fixed-point a, b, rounded to the nearest unit.
MulU(a, b) ==
    LET a0 == a % 1000
        a1 == (a \div 1000) % 1000
        a2 == a \div 1000000
        b0 == b % 1000
        b1 == (b \div 1000) % 1000
        b2 == b \div 1000000
        low == a0 * b0 + (a0 * b1 + a1 * b0) * 1000 + 500000
    IN  a2 * b2 * 1000000 + (a1 * b2 + a2 * b1) * 1000
          + (a0 * b2 + a1 * b1 + a2 * b0) + (low \div 1000000)

\* The signed product, as a function so that its operands are computed once.
Product[a \in Int, b \in Int] == Sign(a) * Sign(b) * MulU(Abs(a), Abs(b))

\* The JavaScript product a * b.
Mul(a, b) == Product[a, b]

\* The k leading decimals of r / b, for 0 <= r < b.
RECURSIVE FracDigits(_, _, _)
FracDigits(r, b, k) ==
    IF k = 0 THEN 0
    ELSE LET d == (r * 10) \div b
             rest == (r * 10) % b
         IN  d * 10^(k - 1) + FracDigits(rest, b, k - 1)

\* a / b for non-negative a and positive b (b below 214 * FP).
DivU(a, b) == (a \div b) * FP + FracDigits(a % b, b, 6)

\* The signed quotient, as a function so that its operands are computed once.
Quotient[a \in Int, b \in Int] == Sign(a) * Sign(b) * DivU(Abs(a), Abs(b))

\* The JavaScript quotient a / b, b # 0.
Div(a, b) == Quotient[a, b]

\* The Taylor series of e^(-x) in Horner form, for 0 <= x <= FP / 2.
RECURSIVE ExpSeries(_, _)
ExpSeries(x, k) ==
    IF k > 10 THEN FP
    ELSE FP - (Mul(x, ExpSeries(x, k + 1)) \div k)

\* e^(-x) for x >= 0: halve the argument until the series converges fast.
RECURSIVE ExpNeg(_)
ExpNeg(x) ==
    IF x > FP \div 2
    THEN LET h == ExpNeg(x \div 2) IN Mul(h, h)
    ELSE ExpSeries(x, 1)

\* Math.exp(x).
MathExp(x) == IF x <= 0 THEN ExpNeg(-x) ELSE Div(FP, ExpNeg(x))

\* Linear interpolation.
lerp(a, b, t) == a + Mul(b - a, t)

----------------------------------------------------------------------------
(* Configuration (config.ts), as fixed-point values                        *)

baselineDefault == 200000

clickImpulseStrength == 400000

decayRate == 400000

rippleSpawnRateMin == 1000000

rippleSpawnRateMax == 8000000

rippleLifetimeMin == 2000000

rippleLifetimeMax == 4000000

rippleMaxRadiusMin == 50000000

rippleMaxRadiusMax == 100000000

clickRippleScale == 1800000

\* The pool size (150 in config.ts), kept small here.
maxRipples == 2

windStrength == 300000

windTurbulence == 1000

windTimeScale == 200

----------------------------------------------------------------------------
(* State                                                                   *)

VARIABLES
    intensity,          \* state.ts: let intensity
    baselineIntensity,  \* config.baselineIntensity (set by the intensity slider)
    windTime,           \* wind.ts: let time, held in thousandths
    perm,               \* utils.ts: let perm, its entries 0..255 (the rest repeat them)
    permId,             \* utils.ts: which array object perm currently is
    pool,               \* ripple.ts: the pool, a sequence of ripples
    spawnAccumulator,   \* ripple.ts: let spawnAccumulator
    timers,             \* pending setTimeout callbacks for secondary rings
    claimed,            \* the slots the last operation's spawns claimed (history)
    notified,           \* the calls of the ambient-spawn callback it made (history)
    born,               \* per slot, the simulated time at which it was last claimed (history)
    isPlaying,          \* main.ts: let isPlaying
    animationId,        \* main.ts: let animationId (null is 0)
    frameRequests,      \* the requestAnimationFrame ids the browser still holds
    frameSeq,           \* the last id requestAnimationFrame handed out
    audioInitialized,   \* main.ts: let audioInitialized
    introComplete,      \* main.ts: let introComplete
    lastTime,           \* main.ts: let lastTime
    introTimers,        \* pending setTimeout callbacks of the intro
    firstDrop,          \* the click position skipIntro's callback holds, << >> if none
    awaiting,           \* whether that callback is suspended in await start()
    audioContext,       \* engine.ts: let audioContext, by its state ("none" is null)
    buses,              \* engine.ts: the gain nodes that are not null
    resumePending,      \* a promise of audioContext.resume() is not settled yet
    rain,               \* rain.ts: its module variables
    ambience,           \* ambience.ts: its module variables
    running,            \* sources started and not stopped, intervals set and not cleared
    connected,          \* the engine nodes a synth has connected to
    audioTime,          \* audioContext.currentTime
    effect,             \* what the last operation did to the audio device (history)
    threw,              \* an operation has thrown (history)
    imageData,          \* the canvas pixels: [width, height, data]
    ditherSize,         \* renderer.ts: let ditherSize
    dataTheme,          \* the document's data-theme attribute
    ditherPass,         \* the last dither pass: its input, blocks visited and skipped (history)
    twin,               \* ripple.ts in a second run: [pool, spawnAccumulator, timers]
    decided,            \* per ambience layer, the last two times it decided for (history)
    lastOp,             \* the operation that produced this state, with its input
    steps,              \* how many operations have run
    elapsed             \* the simulated time the ticks have added up to

stateVars == <<intensity, baselineIntensity>>

windVars == <<windTime, perm, permId>>

poolVars == <<pool, spawnAccumulator, timers, claimed, notified, born>>

appVars == <<isPlaying, animationId, frameRequests, frameSeq, audioInitialized,
             introComplete, lastTime, introTimers, firstDrop, awaiting>>

engineVars == <<audioContext, buses, resumePending, audioTime>>

synthVars == <<rain, ambience, running, connected>>

audioVars == <<engineVars, synthVars, effect, threw>>

renderVars == <<imageData, ditherSize, dataTheme, ditherPass>>

vars == <<intensity, baselineIntensity, windTime, perm, permId,
          pool, spawnAccumulator, timers, claimed, notified, born, appVars, audioVars,
          renderVars, twin, decided, lastOp, steps, elapsed>>

\* Everything outside state.ts, and everything outside ripple.ts.
notState == <<windVars, poolVars, appVars, audioVars, renderVars, twin, decided>>

notPool == <<stateVars, windVars, appVars, audioVars, renderVars, twin, decided>>

\* The most operations one behaviour performs, where a specification counts them.
MaxOps == 6

Op(name, arg) == [name |-> name, arg |-> arg]

\* The claim times after an operation that claimed the given slots.
Born(slots) == [i \in DOMAIN born |-> IF i \in slots THEN elapsed ELSE born[i]]

\* An operation that is counted against MaxOps.
Counted == steps < MaxOps /\ steps' = steps + 1

\* An operation of a specification that does not count operations.
Uncounted == steps' = steps

----------------------------------------------------------------------------
(* Intensity state (state.ts)                                              *)

\* addImpulse without the clamp.
addImpulseUnclamped(value, amount) == value + amount

\* The value after addImpulse(amount).
addImpulse(value, amount) == Min(FP, value + amount)

\* updateState decaying toward zero instead of toward the baseline.
updateStateTowardZero(value, baseline, delta) ==
    Mul(value, MathExp(-Mul(decayRate, delta)))

\* updateState as one explicit Euler step, whose result depends on the tick length.
updateStateEuler(value, baseline, delta) ==
    value + Mul(baseline - value, Mul(decayRate, delta))

\* The value after updateState(delta) with the given baseline.
updateState(value, baseline, delta) ==
    baseline + Mul(value - baseline, MathExp(-Mul(decayRate, delta)))

\* The value after resetState().
resetState(baseline) == baseline

\* The baseline the intensity slider sets: parseInt(value, 10) / 100.
sliderBaseline(percent) == Div(percent * FP, 100 * FP)

AddImpulse(amount) ==
    /\ intensity' = addImpulse(intensity, amount)
    /\ lastOp' = Op("addImpulse", amount)
    /\ UNCHANGED <<baselineIntensity, notState>>

UpdateState(delta) ==
    /\ intensity' = updateState(intensity, baselineIntensity, delta)
    /\ lastOp' = Op("updateState", delta)
    /\ UNCHANGED <<baselineIntensity, notState>>

ResetState ==
    /\ intensity' = resetState(baselineIntensity)
    /\ lastOp' = Op("resetState", 0)
    /\ UNCHANGED <<baselineIntensity, notState>>

IntensitySliderInput(percent) ==
    /\ baselineIntensity' = sliderBaseline(percent)
    /\ lastOp' = Op("intensitySlider", percent)
    /\ UNCHANGED <<intensity, notState>>

----------------------------------------------------------------------------
(* Noise (utils.ts)                                                        *)

\* The value JavaScript reads from an array element that was never written.
Undefined == -1

LcgMul == 16807

LcgMod == 2147483647

PermSize == 256

\* A seed is the number w + h/2: Math.random() * 65536 is hardly ever whole, and
\* a seed with a fractional part keeps it through every step of the generator.
Seeds == { [w |-> 12345, h |-> 0], [w |-> 40503, h |-> 0],
           [w |-> 12345, h |-> 1], [w |-> 7, h |-> 1] }

\* (w * 16807) % 2147483647 for 0 <= w < 2147483647, by Schrage's decomposition.
LcgWhole(w) ==
    LET q == LcgMod \div LcgMul
        r == LcgMod % LcgMul
        t == LcgMul * (w % q) - r * (w \div q)
    IN  IF t < 0 THEN t + LcgMod ELSE t

\* n = (n * 16807) % 2147483647 on the number n.w + n.h/2.
LcgStep(n) ==
    LET t == LcgWhole(n.w)
        half == n.h * (LcgMul \div 2)
    IN  [w |-> IF t >= LcgMod - half THEN t - (LcgMod - half) ELSE t + half,
         h |-> n.h]

\* One iteration of seedNoise's Fisher-Yates loop at index i.  st.p is the array,
\* st.q the properties "k.5" that p[j] reads and writes when j is not whole, and
\* st.n the generator's number.
ShuffleStep(st, i) ==
    LET n1 == LcgStep(st.n)
        j == n1.w % (i + 1)
    IN  IF n1.h = 0
        THEN [p |-> [st.p EXCEPT ![i] = st.p[j], ![j] = st.p[i]], q |-> st.q, n |-> n1]
        ELSE [p |-> [st.p EXCEPT ![i] = st.q[j]],
              q |-> [st.q EXCEPT ![j] = st.p[i]], n |-> n1]

\* The state of seedNoise(seed) before its loop.
ShuffleStart(seed) ==
    [p |-> [i \in 0..(PermSize - 1) |-> i],
     q |-> [i \in 0..(PermSize - 1) |-> Undefined],
     n |-> seed]

\* The iterations for i = hi down to lo, upper half first.  The state between the
\* halves is bound as a value, so that it is computed once.
RECURSIVE Shuffle(_, _, _)
Shuffle(st, hi, lo) ==
    IF hi = lo THEN ShuffleStep(st, hi)
    ELSE LET mid == (hi + lo) \div 2
         IN  CHOOSE after \in {Shuffle(upper, mid, lo) :
                                  upper \in {Shuffle(st, hi, mid + 1)}} : TRUE

\* The array perm that seedNoise(seed) installs: perm[i] = p[i & 255].
seedNoise(seed) == Shuffle(ShuffleStart(seed), PermSize - 1, 1).p

grad3 == << [x |-> 1, y |-> 1], [x |-> -1, y |-> 1], [x |-> 1, y |-> -1],
            [x |-> -1, y |-> -1], [x |-> 1, y |-> 0], [x |-> -1, y |-> 0],
            [x |-> 0, y |-> 1], [x |-> 0, y |-> -1] >>

\* gradP[i] ?? grad3[0], gradP[i] being grad3[perm[i] % 8]: undefined when perm[i] is.
gradP(table, i) ==
    IF table[i] = Undefined THEN grad3[1] ELSE grad3[(table[i] % 8) + 1]

\* perm[i] ?? 0
permOrZero(table, i) == IF table[i] = Undefined THEN 0 ELSE table[i]

fade(t) == Mul(Mul(Mul(t, t), t), Mul(t, Mul(t, 6 * FP) - 15 * FP) + 10 * FP)

\* 2D Perlin noise at (x, y) with the given perm table.
noise2D(table, x, y) ==
    LET X == (x \div FP) % PermSize
        Y == (y \div FP) % PermSize
        fx == x % FP
        fy == y % FP
        u == fade(fx)
        v == fade(fy)
        p0 == permOrZero(table, Y)
        p1 == permOrZero(table, (Y + 1) % PermSize)
        aa == (X + p0) % PermSize
        ab == (X + p1) % PermSize
        ba == ((X + 1) % PermSize) + p0
        bb == ((X + 1) % PermSize) + p1
        n00 == gradP(table, aa)
        n01 == gradP(table, ab)
        n10 == gradP(table, ba % PermSize)
        n11 == gradP(table, bb % PermSize)
        dot00 == n00.x * fx + n00.y * fy
        dot10 == n10.x * (fx - FP) + n10.y * fy
        dot01 == n01.x * fx + n01.y * (fy - FP)
        dot11 == n11.x * (fx - FP) + n11.y * (fy - FP)
    IN  lerp(lerp(dot00, dot10, u), lerp(dot01, dot11, u), v)

----------------------------------------------------------------------------
(* Wind field (wind.ts)                                                    *)

\* time * config.windTimeScale, time being held in thousandths.
windPhase(time) ==
    (time \div 1000) * windTimeScale + ((time % 1000) * windTimeScale) \div 1000

\* getWind(x, y) at the given wind time.
getWind(table, time, x, y) ==
    LET nx == Mul(x, windTurbulence)
        ny == Mul(y, windTurbulence)
        nt == windPhase(time)
    IN  [x |-> Mul(noise2D(table, nx + nt, ny), windStrength),
         y |-> Mul(Mul(noise2D(table, nx, ny + nt + 100 * FP), windStrength), 300000)]

\* An updateWind that counts the time down.
updateWindBack(time, delta) == time - delta

\* time after updateWind(delta): time += delta * 1000.
updateWind(time, delta) == time + delta

\* time after resetWind().
resetWind == 0

----------------------------------------------------------------------------
(* Ripple pool (ripple.ts)                                                 *)

\* The values Math.random() is taken to return.
RandomDraws == {0, 500000, 999999}

\* randomRange(min, max) when Math.random() returns u.
randomRange(min, max, u) == min + Mul(u, max - min)

createInactiveRipple ==
    [x |-> 0, y |-> 0, radius |-> 0, maxRadius |-> 0, opacity |-> 0, speed |-> 0,
     windOffsetX |-> 0, windOffsetY |-> 0, isClick |-> FALSE, active |-> FALSE]

\* The pool initRipplePool() builds.
initRipplePool == [i \in 1..maxRipples |-> createInactiveRipple]

\* The index of the first inactive ripple, 0 for null.
getFromPool(p) ==
    IF \E i \in 1..Len(p) : ~p[i].active
    THEN CHOOSE i \in 1..Len(p) : ~p[i].active /\ \A k \in 1..(i - 1) : p[k].active
    ELSE 0

\* clickRipple with the speed of the longest lifetime, whatever the draw.
clickRippleSlow(x, y, uLife, uRadius) ==
    LET maxRadius == Mul(randomRange(rippleMaxRadiusMin, rippleMaxRadiusMax, uRadius),
                         clickRippleScale)
    IN  [x |-> x, y |-> y, radius |-> 2 * FP, maxRadius |-> maxRadius,
         opacity |-> 900000, speed |-> Div(maxRadius, rippleLifetimeMax),
         windOffsetX |-> 0, windOffsetY |-> 0, isClick |-> TRUE, active |-> TRUE]

\* The ripple spawnClickRipple(x, y) writes, uLife and uRadius being its two draws.
clickRipple(x, y, uLife, uRadius) ==
    LET lifetime == randomRange(rippleLifetimeMin, rippleLifetimeMax, uLife)
        maxRadius == Mul(randomRange(rippleMaxRadiusMin, rippleMaxRadiusMax, uRadius),
                         clickRippleScale)
    IN  [x |-> x, y |-> y, radius |-> 2 * FP, maxRadius |-> maxRadius,
         opacity |-> 900000, speed |-> Div(maxRadius, lifetime),
         windOffsetX |-> 0, windOffsetY |-> 0, isClick |-> TRUE, active |-> TRUE]

\* The two setTimeout calls of spawnClickRipple: callbacks in the order they are set.
secondaryTimers(x, y, maxRadius) ==
    << [x |-> x, y |-> y, maxRadius |-> Mul(maxRadius, 800000), delay |-> 60],
       [x |-> x, y |-> y, maxRadius |-> Mul(maxRadius, 600000), delay |-> 120] >>

\* spawnClickRipple writing the first slot when none is inactive.
spawnClickRippleOverwrite(p, t, x, y, uLife, uRadius) ==
    LET i == IF getFromPool(p) = 0 THEN 1 ELSE getFromPool(p)
        r == clickRipple(x, y, uLife, uRadius)
    IN  [pool |-> [p EXCEPT ![i] = r],
         timers |-> t \o secondaryTimers(x, y, r.maxRadius)]

\* The pool and the timers after spawnClickRipple(x, y).
spawnClickRipple(p, t, x, y, uLife, uRadius) ==
    LET i == getFromPool(p)
        r == clickRipple(x, y, uLife, uRadius)
    IN  IF i = 0 THEN [pool |-> p, timers |-> t]
        ELSE [pool |-> [p EXCEPT ![i] = r],
              timers |-> t \o secondaryTimers(x, y, r.maxRadius)]

\* spawnSecondaryRipple leaving the wind offsets of the slot as they were.
spawnSecondaryRippleKeepOffsets(p, x, y, maxRadius, uLife) ==
    LET i == getFromPool(p)
        lifetime == randomRange(rippleLifetimeMin, rippleLifetimeMax, uLife)
    IN  IF i = 0 THEN p
        ELSE [p EXCEPT ![i].x = x, ![i].y = y, ![i].radius = 2 * FP,
                       ![i].maxRadius = maxRadius, ![i].opacity = 600000,
                       ![i].speed = Div(maxRadius, lifetime),
                       ![i].isClick = TRUE, ![i].active = TRUE]

\* The pool after spawnSecondaryRipple(x, y, maxRadius).
spawnSecondaryRipple(p, x, y, maxRadius, uLife) ==
    LET i == getFromPool(p)
        lifetime == randomRange(rippleLifetimeMin, rippleLifetimeMax, uLife)
    IN  IF i = 0 THEN p
        ELSE [p EXCEPT ![i] =
                [x |-> x, y |-> y, radius |-> 2 * FP, maxRadius |-> maxRadius,
                 opacity |-> 600000, speed |-> Div(maxRadius, lifetime),
                 windOffsetX |-> 0, windOffsetY |-> 0, isClick |-> TRUE,
                 active |-> TRUE]]

\* The pool after spawnAmbientRipple(width, height); d holds its five draws.
spawnAmbientRipple(p, width, height, d) ==
    LET i == getFromPool(p)
        lifetime == randomRange(rippleLifetimeMin, rippleLifetimeMax, d.life)
        maxRadius == Mul(randomRange(rippleMaxRadiusMin, rippleMaxRadiusMax, d.radius),
                         600000)
    IN  IF i = 0 THEN p
        ELSE [p EXCEPT ![i] =
                [x |-> randomRange(0, width, d.x), y |-> randomRange(0, height, d.y),
                 radius |-> 3 * FP, maxRadius |-> maxRadius,
                 opacity |-> randomRange(500000, 800000, d.opacity),
                 speed |-> Div(maxRadius, lifetime),
                 windOffsetX |-> 0, windOffsetY |-> 0, isClick |-> FALSE,
                 active |-> TRUE]]

\* spawnAmbientRipple calling the callback whether or not it found a slot.
ambientCallbackAlways(p, width, height, d) ==
    << [slot |-> getFromPool(p),
        x |-> randomRange(0, width, d.x), y |-> randomRange(0, height, d.y),
        width |-> width, height |-> height] >>

\* The calls of onAmbientSpawn that spawnAmbientRipple(width, height) makes: one
\* with the new ripple's x and y, none if no slot is free. slot names the ripple.
ambientCallback(p, width, height, d) ==
    LET i == getFromPool(p)
        q == spawnAmbientRipple(p, width, height, d)
    IN  IF i = 0 THEN << >>
        ELSE << [slot |-> i, x |-> q[i].x, y |-> q[i].y,
                 width |-> width, height |-> height] >>

\* The calls of onAmbientSpawn during the while loop of updateRipples, in order.
RECURSIVE drainNotified(_, _, _, _, _, _)
drainNotified(p, acc, threshold, width, height, d) ==
    IF acc >= threshold
    THEN ambientCallback(p, width, height, d)
         \o drainNotified(spawnAmbientRipple(p, width, height, d),
                          acc - (700000 + Mul(d.decrement, 600000)),
                          threshold, width, height, d)
    ELSE << >>

\* The loop of updateRipples as an if: one turn at most.
drainAccumulatorOnce(p, acc, threshold, width, height, d) ==
    IF acc >= threshold
    THEN [pool |-> spawnAmbientRipple(p, width, height, d),
          acc |-> acc - (700000 + Mul(d.decrement, 600000))]
    ELSE [pool |-> p, acc |-> acc]

\* The while loop of updateRipples: one ambient spawn and one decrement per turn.
RECURSIVE drainAccumulator(_, _, _, _, _, _)
drainAccumulator(p, acc, threshold, width, height, d) ==
    IF acc >= threshold
    THEN drainAccumulator(spawnAmbientRipple(p, width, height, d),
                          acc - (700000 + Mul(d.decrement, 600000)),
                          threshold, width, height, d)
    ELSE [pool |-> p, acc |-> acc]

\* updateRipple without the opacity test of its deactivation.
updateRippleRadiusOnly(r, delta, table, time) ==
    LET radius == r.radius + Mul(r.speed, delta)
        wind == getWind(table, time, r.x, r.y)
        progress == Div(radius, r.maxRadius)
        fadeProgress == Div(progress - 300000, FP - 300000)
        opacity == IF progress > 300000
                   THEN Mul(r.opacity, FP - Mul(fadeProgress, 30000))
                   ELSE r.opacity
    IN  [r EXCEPT !.radius = radius,
                  !.windOffsetX = r.windOffsetX + Mul(Mul(wind.x, delta), 20 * FP),
                  !.windOffsetY = r.windOffsetY + Mul(Mul(wind.y, delta), 20 * FP),
                  !.opacity = opacity,
                  !.active = ~(radius >= r.maxRadius)]

\* updateRipple fading from the first tick on, by the progress itself.
updateRippleFadeAlways(r, delta, table, time) ==
    LET radius == r.radius + Mul(r.speed, delta)
        wind == getWind(table, time, r.x, r.y)
        offX == r.windOffsetX + Mul(Mul(wind.x, delta), 20 * FP)
        offY == r.windOffsetY + Mul(Mul(wind.y, delta), 20 * FP)
        progress == Div(radius, r.maxRadius)
        opacity == Mul(r.opacity, FP - Mul(progress, 30000))
    IN  [r EXCEPT !.radius = radius, !.windOffsetX = offX, !.windOffsetY = offY,
                  !.opacity = opacity,
                  !.active = ~(radius >= r.maxRadius \/ opacity < 50000)]

\* updateRipple retiring a ripple by its opacity only.
updateRippleFadeOnly(r, delta, table, time) ==
    LET radius == r.radius + Mul(r.speed, delta)
        wind == getWind(table, time, r.x, r.y)
        offX == r.windOffsetX + Mul(Mul(wind.x, delta), 20 * FP)
        offY == r.windOffsetY + Mul(Mul(wind.y, delta), 20 * FP)
        progress == Div(radius, r.maxRadius)
        fadeStart == 300000
        fadeProgress == Div(progress - fadeStart, FP - fadeStart)
        opacity == IF progress > fadeStart
                   THEN Mul(r.opacity, FP - Mul(fadeProgress, 30000))
                   ELSE r.opacity
    IN  [r EXCEPT !.radius = radius, !.windOffsetX = offX, !.windOffsetY = offY,
                  !.opacity = opacity, !.active = ~(opacity < 50000)]

\* One turn of the for loop of updateRipples on an active ripple r.
updateRipple(r, delta, table, time) ==
    LET radius == r.radius + Mul(r.speed, delta)
        wind == getWind(table, time, r.x, r.y)
        offX == r.windOffsetX + Mul(Mul(wind.x, delta), 20 * FP)
        offY == r.windOffsetY + Mul(Mul(wind.y, delta), 20 * FP)
        progress == Div(radius, r.maxRadius)
        fadeStart == 300000
        fadeProgress == Div(progress - fadeStart, FP - fadeStart)
        opacity == IF progress > fadeStart
                   THEN Mul(r.opacity, FP - Mul(fadeProgress, 30000))
                   ELSE r.opacity
    IN  [r EXCEPT !.radius = radius, !.windOffsetX = offX, !.windOffsetY = offY,
                  !.opacity = opacity,
                  !.active = ~(radius >= r.maxRadius \/ opacity < 50000)]

\* The pool and the accumulator after updateRipples(delta, width, height); uThreshold
\* is the draw of the threshold and d the draws of the ambient spawns.
updateRipples(p, acc, value, table, time, delta, width, height, uThreshold, d) ==
    LET spawnRate == lerp(rippleSpawnRateMin, rippleSpawnRateMax, value)
        threshold == 600000 + Mul(uThreshold, 800000)
        drained == drainAccumulator(p, acc + Mul(delta, spawnRate), threshold,
                                    width, height, d)
    IN  [pool |-> [i \in 1..Len(drained.pool) |->
                     IF drained.pool[i].active
                     THEN updateRipple(drained.pool[i], delta, table, time)
                     ELSE drained.pool[i]],
         acc |-> drained.acc]

\* The pool after clearRipples().
clearRipples(p) == [i \in 1..Len(p) |-> [p[i] EXCEPT !.active = FALSE]]

\* The slots that are inactive in p and active in q.
Claimed(p, q) == {i \in 1..Len(p) : ~p[i].active /\ q[i].active}

ActiveCount == Cardinality({i \in 1..Len(pool) : pool[i].active})

\* The canvas size in CSS pixels.
Width == 800 * FP

Height == 600 * FP

\* spawnClickRipple(x, y) with the draws uLife and uRadius.
SpawnClickRipple(x, y, uLife, uRadius) ==
    LET after == spawnClickRipple(pool, timers, x, y, uLife, uRadius)
    IN  /\ pool' = after.pool
        /\ timers' = after.timers
        /\ claimed' = Claimed(pool, after.pool)
        /\ born' = Born(claimed')
        /\ notified' = << >>
        /\ lastOp' = Op("spawnClickRipple", getFromPool(pool))
        /\ UNCHANGED <<spawnAccumulator, notPool>>

\* Timer k may fire next: no timer set before it is due earlier or at the same time.
CanFire(k) == \A m \in 1..(k - 1) : timers[m].delay > timers[k].delay

RemoveAt(t, k) == SubSeq(t, 1, k - 1) \o SubSeq(t, k + 1, Len(t))

\* The callback of the k-th pending timer: spawnSecondaryRipple with the draw uLife.
SecondaryTimer(k, uLife) ==
    LET after == spawnSecondaryRipple(pool, timers[k].x, timers[k].y,
                                      timers[k].maxRadius, uLife)
    IN  /\ CanFire(k)
        /\ pool' = after
        /\ timers' = RemoveAt(timers, k)
        /\ claimed' = Claimed(pool, after)
        /\ born' = Born(claimed')
        /\ notified' = << >>
        /\ lastOp' = Op("spawnSecondaryRipple", getFromPool(pool))
        /\ UNCHANGED <<spawnAccumulator, notPool>>

\* updateRipples(delta, Width, Height) with the draws uThreshold and d.
UpdateRipples(delta, uThreshold, d) ==
    LET spawnRate == lerp(rippleSpawnRateMin, rippleSpawnRateMax, intensity)
        threshold == 600000 + Mul(uThreshold, 800000)
        drained == drainAccumulator(pool, spawnAccumulator + Mul(delta, spawnRate),
                                    threshold, Width, Height, d)
        after == updateRipples(pool, spawnAccumulator, intensity, perm, windTime,
                               delta, Width, Height, uThreshold, d)
    IN  /\ pool' = after.pool
        /\ spawnAccumulator' = after.acc
        /\ claimed' = Claimed(pool, drained.pool)
        /\ born' = Born(claimed')
        /\ notified' = drainNotified(pool, spawnAccumulator + Mul(delta, spawnRate),
                                     threshold, Width, Height, d)
        /\ lastOp' = Op("updateRipples", delta)
        /\ UNCHANGED <<timers, notPool>>

\* clearRipples().
ClearRipples ==
    /\ pool' = clearRipples(pool)
    /\ spawnAccumulator' = 0
    /\ claimed' = {}
    /\ born' = Born(claimed')
    /\ notified' = << >>
    /\ lastOp' = Op("clearRipples", 0)
    /\ UNCHANGED <<timers, notPool>>

----------------------------------------------------------------------------
(* Renderer: the theme colours and the ordered dither pass (renderer.ts)   *)

DARK_BG == [r |-> 10, g |-> 10, b |-> 12]

DARK_FG == [r |-> 255, g |-> 255, b |-> 255]

LIGHT_BG == [r |-> 245, g |-> 245, b |-> 247]

LIGHT_FG == [r |-> 42, g |-> 42, b |-> 52]

isLightMode(theme) == theme = "light"

getColors(theme) ==
    IF isLightMode(theme) THEN [bg |-> LIGHT_BG, fg |-> LIGHT_FG]
                          ELSE [bg |-> DARK_BG, fg |-> DARK_FG]

\* The Bayer matrices by their numerators: an entry v of BAYER_4 stands for
\* v / 16, one of BAYER_8 for v / 64.
BAYER_4 ==
    << <<0, 8, 2, 10>>,
       <<12, 4, 14, 6>>,
       <<3, 11, 1, 9>>,
       <<15, 7, 13, 5>> >>

BAYER_8 ==
    << <<0, 32, 8, 40, 2, 34, 10, 42>>,
       <<48, 16, 56, 24, 50, 18, 58, 26>>,
       <<12, 44, 4, 36, 14, 46, 6, 38>>,
       <<60, 28, 52, 20, 62, 30, 54, 22>>,
       <<3, 35, 11, 43, 1, 33, 9, 41>>,
       <<51, 19, 59, 27, 49, 17, 57, 25>>,
       <<15, 47, 7, 39, 13, 45, 5, 37>>,
       <<63, 31, 55, 23, 61, 29, 53, 21>> >>

\* A pixel of an ImageData: four bytes.
rgba(c, alpha) == [r |-> c.r, g |-> c.g, b |-> c.b, a |-> alpha]

\* The pixels of a canvas after fillRect(0, 0, width, height) in colour c; pixel
\* (x, y) is data[y * width + x].
filled(width, height, c) == [i \in 0..(width * height - 1) |-> rgba(c, 255)]

\* renderBackground: the whole canvas in the theme's background colour.
renderBackground(width, height, theme) == filled(width, height, getColors(theme).bg)

\* The two fill loops of applyDither: the block at (bx, by), clipped to the
\* canvas, gets the colour c; the alpha byte is not written.
\* A fill that stops after the block's first row.
fillBlockRow(data, width, height, bx, by, pixelScale, c) ==
    [i \in DOMAIN data |->
        IF /\ i % width >= bx
           /\ i % width < Min(bx + pixelScale, width)
           /\ i \div width = by
        THEN [data[i] EXCEPT !.r = c.r, !.g = c.g, !.b = c.b]
        ELSE data[i]]

fillBlock(data, width, height, bx, by, pixelScale, c) ==
    [i \in DOMAIN data |->
        IF /\ i % width >= bx
           /\ i % width < Min(bx + pixelScale, width)
           /\ i \div width >= by
           /\ i \div width < Min(by + pixelScale, height)
        THEN [data[i] EXCEPT !.r = c.r, !.g = c.g, !.b = c.b]
        ELSE data[i]]

\* The distance of a pixel from black in place of its distance from the
\* background.
bgDiffFromBlack(p, bg) == p.r + p.g + p.b

\* How different a pixel is from the background.
bgDiff(p, bg) == Abs(p.r - bg.r) + Abs(p.g - bg.g) + Abs(p.b - bg.b)

\* intensity > threshold * 0.7 for the block at (bx, by), with intensity
\* (r + g + b) / (3 * 255), or one minus that in light mode, and threshold
\* v / n from the Bayer matrix; both sides are multiplied by 3 * 255 * 10 * n.
useFg(p, theme, bx, by, pixelScale) ==
    LET matrix == IF pixelScale <= 4 THEN BAYER_4 ELSE BAYER_8
        matrixSize == IF pixelScale <= 4 THEN 4 ELSE 8
        n == matrixSize * matrixSize
        mx == (bx \div pixelScale) % matrixSize
        my == (by \div pixelScale) % matrixSize
        v == matrix[my + 1][mx + 1]
        sum == p.r + p.g + p.b
        scaled == IF isLightMode(theme) THEN (3 * 255 - sum) * 10 * n
                                        ELSE sum * 10 * n
    IN  scaled > v * 7 * 3 * 255

\* One iteration of the block loop: the block's centre is sampled, and the
\* block is filled with the background if the sample is near it, and with the
\* foreground or the background by the threshold otherwise.
ditherBlock(data, width, height, theme, bx, by, pixelScale) ==
    LET sx == Min(bx + pixelScale \div 2, width - 1)
        sy == Min(by + pixelScale \div 2, height - 1)
        p == data[sy * width + sx]
        colors == getColors(theme)
        skip == bgDiff(p, colors.bg) < 30
        color == IF skip THEN colors.bg
                 ELSE IF useFg(p, theme, bx, by, pixelScale) THEN colors.fg
                 ELSE colors.bg
    IN  [data |-> fillBlock(data, width, height, bx, by, pixelScale, color),
         skipped |-> skip]

\* The block loop from its n-th block on, rows outermost, on the one buffer.
RECURSIVE ditherBlocks(_, _, _, _, _, _, _)
ditherBlocks(data, width, height, theme, pixelScale, n, skipped) ==
    LET columns == (width + pixelScale - 1) \div pixelScale
        rows == (height + pixelScale - 1) \div pixelScale
    IN  IF n >= columns * rows
        THEN [data |-> data, blocks |-> n, skipped |-> skipped]
        ELSE LET block == ditherBlock(data, width, height, theme,
                                      (n % columns) * pixelScale,
                                      (n \div columns) * pixelScale, pixelScale)
             IN  ditherBlocks(block.data, width, height, theme, pixelScale, n + 1,
                              IF block.skipped THEN skipped + 1 ELSE skipped)

\* applyDither on a canvas of the given size: the pixels it puts back, and how
\* many blocks it visited and how many of them it filled as background without
\* consulting the matrix.
applyDither(data, width, height, size, theme) ==
    IF size = 0 THEN [data |-> data, blocks |-> 0, skipped |-> 0]
    ELSE ditherBlocks(data, width, height, theme, size, 0, 0)

noPass == [blocks |-> 0, skipped |-> 0, input |-> << >>]

ApplyDither ==
    LET out == applyDither(imageData.data, imageData.width, imageData.height,
                           ditherSize, dataTheme)
    IN  /\ imageData' = [imageData EXCEPT !.data = out.data]
        /\ ditherPass' = [blocks |-> out.blocks, skipped |-> out.skipped,
                          input |-> imageData.data]
        /\ lastOp' = Op("applyDither", ditherSize)
        /\ UNCHANGED <<ditherSize, dataTheme>>

RenderBackground ==
    /\ imageData' = [imageData EXCEPT
                        !.data = renderBackground(imageData.width, imageData.height,
                                                  dataTheme)]
    /\ lastOp' = Op("renderBackground", 0)
    /\ UNCHANGED <<ditherSize, dataTheme, ditherPass>>

\* The change handler of the dither select: setDitherSize(size).
DitherSelect(size) ==
    /\ ditherSize' = size
    /\ lastOp' = Op("setDitherSize", size)
    /\ UNCHANGED <<imageData, dataTheme, ditherPass>>

----------------------------------------------------------------------------
(* The state after the modules are loaded and initRipplePool() has run     *)

\* The module variables of main.ts and of the audio modules at load.
null == 0

\* calls lists, in order, the calls a handler of main.ts makes to the other modules.
\* targetQ is the Q the resonators are sent to, 0 if none.
noEffect ==
    [created |-> 0, params |-> 0, resume |-> FALSE, sounds |-> {}, calls |-> << >>,
     targetQ |-> 0]

\* exciteDecayTimeout is the timer id the module holds, null if none;
\* decayPending are the ids of its timers the browser still holds, and
\* timeoutSeq is the last id window.setTimeout handed out to it.
rainInitial ==
    [isRunning |-> FALSE, noiseNode |-> FALSE, exciteGain |-> FALSE,
     resonators |-> 0, windLFOs |-> 0, exciteDecayTimeout |-> null,
     decayPending |-> {}, timeoutSeq |-> 0]

ambienceInitial ==
    [isRunning |-> FALSE, schedulerInterval |-> FALSE,
     nextThunderTime |-> 0, nextCricketTime |-> 0, nextDripTime |-> 0,
     windNoise |-> FALSE, windLFO |-> FALSE]

\* No layer has decided for a sound yet.
noDecision ==
    [layer \in {"thunder", "cricket", "drip"} |-> [previous |-> -1, last |-> -1]]

noneRunning ==
    [rainNoise |-> 0, rainLFOs |-> 0, windNoise |-> 0, windLFO |-> 0, intervals |-> 0]

InitApp ==
    /\ isPlaying = FALSE
    /\ animationId = null
    /\ frameRequests = {}
    /\ frameSeq = 0
    /\ audioInitialized = FALSE
    /\ introComplete = FALSE
    /\ lastTime = 0
    /\ introTimers = {"autoSkip"}
    /\ firstDrop = << >>
    /\ awaiting = FALSE

\* The model's canvas is empty until a specification draws one.
InitRenderer ==
    /\ imageData = [width |-> 0, height |-> 0, data |-> << >>]
    /\ ditherSize = 8
    /\ dataTheme = "dark"
    /\ ditherPass = noPass

InitAudio ==
    /\ audioContext = "none"
    /\ buses = {}
    /\ resumePending = FALSE
    /\ audioTime = 0
    /\ rain = rainInitial
    /\ ambience = ambienceInitial
    /\ running = noneRunning
    /\ connected = {}
    /\ effect = noEffect
    /\ threw = FALSE

Init ==
    /\ intensity = baselineDefault
    /\ baselineIntensity = baselineDefault
    /\ windTime = 0
    /\ \E seed \in Seeds : perm = seedNoise(seed)
    /\ permId = 0
    /\ pool = initRipplePool
    /\ spawnAccumulator = 0
    /\ timers = << >>
    /\ claimed = {}
    /\ born = [i \in 1..maxRipples |-> 0]
    /\ notified = << >>
    /\ twin = [pool |-> initRipplePool, spawnAccumulator |-> 0, timers |-> << >>]
    /\ decided = noDecision
    /\ InitApp
    /\ InitAudio
    /\ InitRenderer
    /\ lastOp = Op("init", 0)
    /\ steps = 0
    /\ elapsed = 0

----------------------------------------------------------------------------
(* The intensity state on its own: any order of its four operations        *)

\* Impulse amounts: none, the default click strength, and amounts past the clamp.
ImpulseAmounts == {0, clickImpulseStrength, FP, 5 * (FP \div 2)}

\* Tick lengths in seconds: 0, 1/60, 1/2, 2.
StateDeltas == {0, 16667, 500000, 2 * FP}

\* Positions of the intensity slider, in percent.
SliderPercents == {0, 20, 55, 100}

StateAddImpulse == \E a \in ImpulseAmounts : AddImpulse(a) /\ Counted /\ UNCHANGED elapsed

StateUpdate == \E d \in StateDeltas : UpdateState(d) /\ Counted /\ UNCHANGED elapsed

StateReset == ResetState /\ Counted /\ UNCHANGED elapsed

StateSlider ==
    \E v \in SliderPercents : IntensitySliderInput(v) /\ Counted /\ UNCHANGED elapsed

NextState == StateAddImpulse \/ StateUpdate \/ StateReset \/ StateSlider

\* The initial state with one of the seeds: the operations below read no noise.
InitOneSeed == Init /\ perm = seedNoise([w |-> 12345, h |-> 1])

SpecState == InitOneSeed /\ [][NextState]_vars

\* C3: the intensity stays in [0, 1] whatever the order, the amounts (none
\* negative), the tick lengths and the baselines in [0, 1]; in particular addImpulse
\* never leaves it above 1.
C3_IntensityInUnitInterval == 0 <= intensity /\ intensity <= FP

\* An impulse that would have passed 1 has been clamped.
C3_Witness ==
    /\ lastOp.name = "addImpulse"
    /\ lastOp.arg > FP
    /\ intensity = FP

----------------------------------------------------------------------------
(* Decay alone: updateState and nothing else, from any value and baseline  *)

DecayValues == {0, baselineDefault, 600000, FP}

DecayBaselines == {0, baselineDefault, FP}

\* Tick lengths in seconds: 0, 1/2, 1, 3.
DecayDeltas == {0, 500000, FP, 3 * FP}

InitDecay ==
    /\ intensity \in DecayValues
    /\ baselineIntensity \in DecayBaselines
    /\ windTime = 0
    /\ perm = seedNoise([w |-> 12345, h |-> 1])
    /\ permId = 0
    /\ pool = initRipplePool
    /\ spawnAccumulator = 0
    /\ timers = << >>
    /\ claimed = {}
    /\ born = [i \in 1..maxRipples |-> 0]
    /\ notified = << >>
    /\ twin = [pool |-> initRipplePool, spawnAccumulator |-> 0, timers |-> << >>]
    /\ decided = noDecision
    /\ InitApp
    /\ InitAudio
    /\ InitRenderer
    /\ lastOp = Op("init", 0)
    /\ steps = 0
    /\ elapsed = 0

DecayTick(d) == UpdateState(d) /\ Uncounted /\ UNCHANGED elapsed

DecayUpdate == \E d \in DecayDeltas : DecayTick(d)

\* Frames keep coming, and their timestamps keep growing.
DecayFairness == WF_vars(\E d \in DecayDeltas \ {0} : DecayTick(d))

SpecDecay == InitDecay /\ [][DecayUpdate]_vars /\ DecayFairness

\* The distance below which the fixed-point value no longer moves.
Tolerance == FP \div 10^5

Distance == Abs(intensity - baselineIntensity)

\* C4: with no impulse and a fixed baseline, every updateState call leaves the value
\* on the same side of the baseline and no farther from it, and the value ends
\* within the arithmetic's tolerance of the baseline for good.
C4_DecayConverges ==
    /\ [][ /\ (intensity >= baselineIntensity => intensity' >= baselineIntensity')
           /\ (intensity <= baselineIntensity => intensity' <= baselineIntensity')
           /\ Abs(intensity' - baselineIntensity') <= Distance ]_vars
    /\ <>[](Distance <= Tolerance)

\* A value that started away from the baseline has come within the tolerance.
C4_Witness ==
    /\ lastOp.name = "updateState"
    /\ lastOp.arg > 0
    /\ intensity # baselineIntensity
    /\ Distance <= Tolerance

----------------------------------------------------------------------------
(* Scenario A: one impulse at the default configuration, then one second   *)
(* of decay cut into ticks of any of several lengths                       *)

\* Tick lengths in seconds: 1/64, 1/50, 1/20, 1/4, 1/2, 1.
ScenarioADeltas == {15625, 20000, 50000, 250000, 500000, FP}

ScenarioAImpulse ==
    /\ lastOp.name = "init"
    /\ AddImpulse(clickImpulseStrength)
    /\ Uncounted
    /\ UNCHANGED elapsed

ScenarioATick(d) ==
    /\ lastOp.name # "init"
    /\ elapsed + d <= FP
    /\ UpdateState(d)
    /\ Uncounted
    /\ elapsed' = elapsed + d

NextScenarioA == ScenarioAImpulse \/ \E d \in ScenarioADeltas : ScenarioATick(d)

SpecScenarioA == InitOneSeed /\ [][NextScenarioA]_vars

\* C5: at baseline 0.2 and decay rate 0.4, addImpulse(0.4) sets the value to 0.6
\* exactly, and after one second of updateState calls the value is 0.468 to within
\* 0.001, however the second was cut into ticks.
C5_ScenarioA ==
    /\ (baselineIntensity = 200000 /\ decayRate = 400000)
    /\ (lastOp.name = "addImpulse" => intensity = 600000)
    /\ (elapsed = FP => Abs(intensity - 468000) <= 1000)

\* A full second of decay made of more than one tick.
C5_Witness ==
    /\ elapsed = FP
    /\ lastOp.name = "updateState"
    /\ lastOp.arg < FP
    /\ Abs(intensity - 468000) <= 1000

----------------------------------------------------------------------------
(* The ripple pool on its own: clicks, secondary-ring timers, ticks and     *)
(* clears in any order                                                     *)

\* The most operations one behaviour of the pool specification performs.
MaxPoolOps == 5

\* The two draws of a click spawn: lifetime 3 s with maxRadius 90, and
\* lifetime 2 s with the largest maxRadius.
ClickDraws == {[life |-> 500000, radius |-> 0], [life |-> 0, radius |-> 999999]}

ClickX == 400 * FP

ClickY == 300 * FP

\* The draw of a secondary ring: the shortest and the longest lifetime.
SecondaryDraws == {0, 999999}

\* The draws of an ambient spawn: a slow, small, faint ripple and a fast, large,
\* bright one.
SlowFaint ==
    [life |-> 999999, radius |-> 0, x |-> 250000, y |-> 750000,
     opacity |-> 0, decrement |-> 500000]

FastBright ==
    [life |-> 0, radius |-> 999999, x |-> 750000, y |-> 250000,
     opacity |-> 999999, decrement |-> 0]

\* Ticks of the pool specification: an empty frame, and one-second frames with the
\* lowest and the highest threshold.
PoolTicks ==
    {[delta |-> 0, threshold |-> 0, d |-> SlowFaint],
     [delta |-> FP, threshold |-> 0, d |-> FastBright],
     [delta |-> FP, threshold |-> 999999, d |-> SlowFaint]}

PoolCounted == steps < MaxPoolOps /\ steps' = steps + 1

PoolClick ==
    \E c \in ClickDraws :
        SpawnClickRipple(ClickX, ClickY, c.life, c.radius) /\ PoolCounted /\ UNCHANGED elapsed

PoolTimer ==
    /\ \E k \in 1..Len(timers), u \in SecondaryDraws : SecondaryTimer(k, u) /\ PoolCounted
    /\ UNCHANGED elapsed

\* A tick adds its delta to the simulated time.
PoolTick ==
    \E t \in PoolTicks :
        /\ UpdateRipples(t.delta, t.threshold, t.d)
        /\ PoolCounted
        /\ elapsed' = elapsed + t.delta

PoolClear == ClearRipples /\ PoolCounted /\ UNCHANGED elapsed

NextRipple == PoolClick \/ PoolTimer \/ PoolTick \/ PoolClear

SpecRipple == InitOneSeed /\ [][NextRipple]_vars

\* C1: the active count never exceeds maxRipples, the length initRipplePool gave the
\* pool; a spawn made when every slot is active (a click, a secondary ring, or the
\* ambient spawns of a tick, which then only advances the ripples) overwrites no
\* ripple and sets no timer; and when the first maxRipples operations
\* were click spawns (each set its two timers), one more click spawn leaves exactly
\* maxRipples ripples active.
C1_PoolCapacity ==
    /\ [](ActiveCount <= maxRipples /\ Len(pool) = maxRipples)
    /\ [][ /\ (ActiveCount = maxRipples /\ lastOp'.name = "spawnClickRipple"
               => /\ pool' = pool
                  /\ timers' = timers
                  /\ spawnAccumulator' = spawnAccumulator)
           /\ (ActiveCount = maxRipples /\ lastOp'.name = "spawnSecondaryRipple"
               => pool' = pool /\ spawnAccumulator' = spawnAccumulator)
           /\ (ActiveCount = maxRipples /\ lastOp'.name = "updateRipples"
               => /\ claimed' = {}
                  /\ \A i \in 1..maxRipples :
                         pool'[i] = updateRipple(pool[i], lastOp'.arg, perm, windTime))
           /\ (steps = maxRipples /\ Len(timers) = 2 * maxRipples
                  /\ lastOp'.name = "spawnClickRipple"
               => ActiveCount = maxRipples /\ ActiveCount' = maxRipples) ]_vars

\* maxRipples click spawns filled the pool and one more was dropped.
C1_Witness ==
    /\ steps = maxRipples + 1
    /\ lastOp = Op("spawnClickRipple", 0)
    /\ Len(timers) = 2 * maxRipples
    /\ ActiveCount = maxRipples

\* C12: the ambient-spawn callback is called exactly once for each ambient ripple
\* that claims a slot, with that ripple's x and y and the viewport width and height;
\* it is not called for an ambient spawn dropped on a full pool, nor by a click
\* spawn, a secondary-ring spawn or clearRipples.
C12_AmbientCallback ==
    [][/\ lastOp'.name = "updateRipples" =>
              /\ Len(notified') = Cardinality(claimed')
              /\ \A k \in 1..Len(notified') :
                     /\ notified'[k].slot \in claimed'
                     /\ ~pool[notified'[k].slot].active
                     /\ ~pool'[notified'[k].slot].isClick
                     /\ pool'[notified'[k].slot].x = notified'[k].x
                     /\ pool'[notified'[k].slot].y = notified'[k].y
                     /\ notified'[k].width = Width
                     /\ notified'[k].height = Height
              /\ \A j, k \in 1..Len(notified') :
                     j # k => notified'[j].slot # notified'[k].slot
       /\ lastOp'.name \in {"spawnClickRipple", "spawnSecondaryRipple",
                            "clearRipples"} => notified' = << >>]_vars

\* One tick spawned an ambient ripple into the last free slot and dropped a second
\* spawn: one call was made, and the pool is full.
C12_Witness ==
    /\ lastOp.name = "updateRipples"
    /\ Len(notified) = 1
    /\ spawnAccumulator < 0
    /\ ActiveCount = maxRipples

\* The pool with slot i as initRipplePool made it.
Clean(i) == [pool EXCEPT ![i] = createInactiveRipple]

RippleFields ==
    {"x", "y", "radius", "maxRadius", "opacity", "speed", "windOffsetX",
     "windOffsetY", "isClick", "active"}

\* C13: every spawn claims the first inactive slot in pool order and writes all ten
\* fields: the slot holds what the same spawn leaves in a slot never used before,
\* so nothing of the previous occupant remains; a click or secondary ripple starts
\* with wind offsets 0 and isClick set, an ambient ripple with isClick unset.
C13_SlotReuse ==
    [][\A i \in claimed' :
           /\ \A j \in 1..(i - 1) : pool[j].active \/ j \in claimed'
           /\ DOMAIN pool'[i] = RippleFields
           /\ lastOp'.name = "spawnClickRipple" =>
                  /\ \E c \in ClickDraws :
                         pool'[i] = spawnClickRipple(Clean(i), timers, ClickX, ClickY,
                                                     c.life, c.radius).pool[i]
                  /\ pool'[i].windOffsetX = 0 /\ pool'[i].windOffsetY = 0
                  /\ pool'[i].isClick
           /\ lastOp'.name = "spawnSecondaryRipple" =>
                  /\ \E k \in 1..Len(timers), u \in SecondaryDraws :
                         pool'[i] = spawnSecondaryRipple(Clean(i), timers[k].x,
                                        timers[k].y, timers[k].maxRadius, u)[i]
                  /\ pool'[i].windOffsetX = 0 /\ pool'[i].windOffsetY = 0
                  /\ pool'[i].isClick
           /\ lastOp'.name = "updateRipples" =>
                  /\ \E t \in PoolTicks :
                         /\ t.delta = lastOp'.arg
                         /\ pool'[i] = updateRipples(Clean(i), spawnAccumulator,
                                           intensity, perm, windTime, t.delta, Width,
                                           Height, t.threshold, t.d).pool[i]
                  /\ ~pool'[i].isClick]_vars

\* A spawn has claimed slot 1 again: slot 2 has been used and moved by the wind,
\* which happens only while slot 1 is occupied.
C13_Witness ==
    /\ lastOp.name \in {"spawnClickRipple", "spawnSecondaryRipple"}
    /\ claimed = {1}
    /\ ~pool[2].active /\ pool[2].radius > 0 /\ pool[2].windOffsetX # 0

\* The opacity the ring before the one of a timer was spawned with: the primary
\* ring's for the timer of 60 ms, the first secondary ring's for the one of 120 ms.
PreviousOpacity(delay) ==
    IF delay = 60 THEN clickRipple(0, 0, 0, 0).opacity
    ELSE spawnSecondaryRipple(initRipplePool, 0, 0, 0, 0)[1].opacity

\* C16: a click spawn that finds a slot activates a ripple with radius 2,
\* opacity 0.9 and speed maxRadius / lifetime and sets exactly two timers for
\* secondary rings at the same position, of 60 ms and then 120 ms, with 0.8 and
\* 0.6 of the primary's maxRadius; each secondary ring is spawned with the
\* maxRadius of its timer and with an opacity lower than the ring before it,
\* and the timer of 120 ms never fires while the one of 60 ms set just before it
\* is pending.
C16_ClickSpawn ==
    [][/\ steps' = steps + 1 /\ lastOp'.name = "spawnClickRipple" /\ lastOp'.arg # 0 =>
            LET r == pool'[lastOp'.arg]
                n == Len(timers)
            IN  /\ ~pool[lastOp'.arg].active /\ r.active
                /\ r.x = ClickX /\ r.y = ClickY
                /\ r.radius = 2 * FP
                /\ r.opacity = 900000
                /\ \E c \in ClickDraws :
                      r.speed = Div(r.maxRadius,
                                    randomRange(rippleLifetimeMin, rippleLifetimeMax, c.life))
                /\ Len(timers') = n + 2
                /\ SubSeq(timers', 1, n) = timers
                /\ timers'[n + 1] = [x |-> r.x, y |-> r.y, delay |-> 60,
                                     maxRadius |-> Mul(r.maxRadius, 800000)]
                /\ timers'[n + 2] = [x |-> r.x, y |-> r.y, delay |-> 120,
                                     maxRadius |-> Mul(r.maxRadius, 600000)]
                /\ timers'[n + 2].maxRadius < timers'[n + 1].maxRadius
                /\ timers'[n + 1].maxRadius < r.maxRadius
       /\ steps' = steps + 1 /\ lastOp'.name = "spawnSecondaryRipple" /\ lastOp'.arg # 0 =>
            \E k \in 1..Len(timers) :
                LET ring == pool'[lastOp'.arg]
                IN  /\ timers' = RemoveAt(timers, k)
                    /\ k > 1 /\ timers[k].delay = 120 => timers[k - 1].delay # 60
                    /\ ring.active
                    /\ ring.x = timers[k].x /\ ring.y = timers[k].y
                    /\ ring.radius = 2 * FP
                    /\ ring.maxRadius = timers[k].maxRadius
                    /\ ring.opacity < PreviousOpacity(timers[k].delay)]_vars

\* The lifetime of the ripple in slot i: maxRadius / speed.
Lifetime(i) == Div(pool[i].maxRadius, pool[i].speed)

\* C17: an active ripple has been ticked for less than its lifetime
\* (maxRadius / speed) since its spawn, so a ripple is inactive once the tick
\* time since its spawn reaches the lifetime; a slot becomes active only in a
\* spawn that claimed it, and an active slot becomes inactive only in
\* updateRipples or clearRipples.
C17_Retires ==
    /\ [](\A i \in 1..maxRipples : pool[i].active => elapsed - born[i] < Lifetime(i))
    /\ [][\A i \in 1..maxRipples :
             /\ (~pool[i].active /\ pool'[i].active
                 => /\ i \in claimed'
                    /\ lastOp'.name \in {"spawnClickRipple", "spawnSecondaryRipple",
                                         "updateRipples"})
             /\ (pool[i].active /\ ~pool'[i].active
                 => lastOp'.name \in {"updateRipples", "clearRipples"}) ]_vars

\* A tick has just retired a ripple by its radius, and it is the tick with which
\* the time since the ripple's spawn reached its lifetime.
C17_Witness ==
    /\ lastOp.name = "updateRipples"
    /\ \E i \in 1..maxRipples :
           /\ ~pool[i].active
           /\ pool[i].maxRadius > 0
           /\ pool[i].radius >= pool[i].maxRadius
           /\ elapsed - born[i] >= Lifetime(i)
           /\ elapsed - born[i] - lastOp.arg < Lifetime(i)

\* The turns the loop of one tick can take in these runs.
DrainTurns == 0..8

----------------------------------------------------------------------------
(* Two runs of the ripple pool side by side: the same noise seed, the same  *)
(* clicks and timer firings, the same delta-times, and each run with its    *)
(* own outcomes of Math.random()                                            *)

MaxTwoRunOps == 3

\* Both runs receive the click at (x, y); c and c2 are the draws of the two runs.
TwoRunsClick(x, y, c, c2) ==
    LET after == spawnClickRipple(pool, timers, x, y, c.life, c.radius)
        after2 == spawnClickRipple(twin.pool, twin.timers, x, y, c2.life, c2.radius)
    IN  /\ pool' = after.pool
        /\ timers' = after.timers
        /\ claimed' = Claimed(pool, after.pool)
        /\ born' = Born(claimed')
        /\ notified' = << >>
        /\ twin' = [twin EXCEPT !.pool = after2.pool, !.timers = after2.timers]
        /\ lastOp' = Op("spawnClickRipple", getFromPool(pool))
        /\ UNCHANGED spawnAccumulator

\* The k-th pending timer fires in both runs; u and u2 are the draws.
TwoRunsTimer(k, u, u2) ==
    LET after == spawnSecondaryRipple(pool, timers[k].x, timers[k].y,
                                      timers[k].maxRadius, u)
        after2 == spawnSecondaryRipple(twin.pool, twin.timers[k].x, twin.timers[k].y,
                                       twin.timers[k].maxRadius, u2)
    IN  /\ k <= Len(twin.timers)
        /\ CanFire(k)
        /\ pool' = after
        /\ timers' = RemoveAt(timers, k)
        /\ claimed' = Claimed(pool, after)
        /\ born' = Born(claimed')
        /\ notified' = << >>
        /\ twin' = [twin EXCEPT !.pool = after2, !.timers = RemoveAt(twin.timers, k)]
        /\ lastOp' = Op("spawnSecondaryRipple", getFromPool(pool))
        /\ UNCHANGED spawnAccumulator

\* Both runs tick by the same delta, with the same intensity, noise table and
\* wind time; t and t2 carry the draws of the ambient spawns of the two runs.
TwoRunsTick(delta, t, t2) ==
    LET spawnRate == lerp(rippleSpawnRateMin, rippleSpawnRateMax, intensity)
        threshold == 600000 + Mul(t.threshold, 800000)
        drained == drainAccumulator(pool, spawnAccumulator + Mul(delta, spawnRate),
                                    threshold, Width, Height, t.d)
        after == updateRipples(pool, spawnAccumulator, intensity, perm, windTime,
                               delta, Width, Height, t.threshold, t.d)
        after2 == updateRipples(twin.pool, twin.spawnAccumulator, intensity, perm,
                                windTime, delta, Width, Height, t2.threshold, t2.d)
    IN  /\ pool' = after.pool
        /\ spawnAccumulator' = after.acc
        /\ claimed' = Claimed(pool, drained.pool)
        /\ born' = Born(claimed')
        /\ notified' = drainNotified(pool, spawnAccumulator + Mul(delta, spawnRate),
                                     threshold, Width, Height, t.d)
        /\ twin' = [twin EXCEPT !.pool = after2.pool, !.spawnAccumulator = after2.acc]
        /\ lastOp' = Op("updateRipples", delta)
        /\ UNCHANGED timers

TwoRunsCounted ==
    /\ steps < MaxTwoRunOps
    /\ steps' = steps + 1
    /\ UNCHANGED <<stateVars, windVars, appVars, audioVars, renderVars, decided,
                   elapsed>>

TwoClick ==
    /\ TwoRunsCounted
    /\ \E c \in ClickDraws, c2 \in ClickDraws : TwoRunsClick(ClickX, ClickY, c, c2)

TwoTimer ==
    /\ TwoRunsCounted
    /\ \E k \in 1..Len(timers), u \in SecondaryDraws, u2 \in SecondaryDraws :
          TwoRunsTimer(k, u, u2)

TwoTick ==
    /\ TwoRunsCounted
    /\ \E t \in PoolTicks, t2 \in PoolTicks :
          t.delta = t2.delta /\ TwoRunsTick(t.delta, t, t2)

NextTwoRuns == TwoClick \/ TwoTimer \/ TwoTick

SpecTwoRuns == InitOneSeed /\ [][NextTwoRuns]_vars

\* What a run shows of its click-spawned ripples: position, radius and opacity
\* of each slot that holds an active one.
ClickRipples(p) ==
    [i \in {j \in DOMAIN p : p[j].active /\ p[j].isClick} |->
        [x |-> p[i].x + p[i].windOffsetX, y |-> p[i].y + p[i].windOffsetY,
         radius |-> p[i].radius, opacity |-> p[i].opacity]]

\* C15: two runs with the same noise seed, the same delta-times and the same
\* clicks show the same position, radius and opacity for every click-spawned
\* ripple at every point of the run.
C15_Reproducible == ClickRipples(pool) = ClickRipples(twin.pool)

----------------------------------------------------------------------------
(* Ripples through their whole life: clicks at time 0, then frames of 1/60 s *)
(* with the secondary-ring timers firing when due and ambient spawns         *)

\* The most frames one behaviour of the lifecycle specification runs.
MaxFrames == 270

\* 1/60 s.
FrameDelta == (FP + 30) \div 60

\* The draw of the threshold in these frames: a threshold of 1.0.
LifeThreshold == FP \div 2

\* The draws of the ambient spawns in these frames.
LifeDraws == {SlowFaint, [FastBright EXCEPT !.decrement = SlowFaint.decrement]}

\* Timer k is due: delays are in milliseconds, elapsed in microseconds.
Due(k) == timers[k].delay * 1000 <= elapsed

\* Clicks come before the first frame, two at most.
LifeClick ==
    /\ steps = 0
    /\ Len(timers) < 4
    /\ \E c \in ClickDraws : SpawnClickRipple(ClickX, ClickY, c.life, c.radius)
    /\ UNCHANGED <<steps, elapsed>>

LifeTimer ==
    /\ \E k \in 1..Len(timers), u \in SecondaryDraws : Due(k) /\ SecondaryTimer(k, u)
    /\ UNCHANGED <<steps, elapsed>>

\* The lengths frame number n may have: the first frame may have delta 0, and the
\* page may stall for a quarter of a second after one second.
FrameDeltas(n) ==
    IF n = 0 THEN {0, FrameDelta}
    ELSE IF n = 60 THEN {FrameDelta, FP \div 4}
    ELSE {FrameDelta}

\* A frame comes once every due timer has fired.
LifeFrame ==
    /\ steps < MaxFrames
    /\ \A k \in 1..Len(timers) : ~Due(k)
    /\ \E delta \in FrameDeltas(steps), d \in LifeDraws :
           /\ UpdateRipples(delta, LifeThreshold, d)
           /\ elapsed' = elapsed + delta
    /\ steps' = steps + 1

NextLifecycle == LifeClick \/ LifeTimer \/ LifeFrame

SpecLifecycle == InitOneSeed /\ [][NextLifecycle]_vars

\* C2: an active ripple has radius below maxRadius and opacity at least 0.05 (the
\* tick that takes it past either bound deactivates it); a tick never lowers the
\* radius of a ripple that was active; and no operation changes a field of an
\* inactive ripple unless a spawn of that operation claimed its slot.
C2_RippleLifecycle ==
    /\ [](\A i \in 1..maxRipples :
             pool[i].active
                 => pool[i].radius < pool[i].maxRadius /\ pool[i].opacity >= 50000)
    /\ [][\A i \in 1..maxRipples :
             /\ (pool[i].active /\ lastOp'.name = "updateRipples"
                 => pool'[i].radius >= pool[i].radius)
             /\ (~pool[i].active /\ i \notin claimed' => pool'[i] = pool[i]) ]_vars

\* A frame has just retired a ripple by opacity, short of its maxRadius, while
\* another slot that was inactive before the frame stays as it was.
C2_Witness ==
    /\ lastOp.name = "updateRipples"
    /\ \E i \in 1..maxRipples :
           /\ ~pool[i].active
           /\ pool[i].opacity < 50000
           /\ pool[i].opacity > 0
           /\ pool[i].radius < pool[i].maxRadius

\* Every frame so far lasted 1/60 s.
Regular == elapsed = steps * FrameDelta

\* Slot i holds the click ripple of scenario B (maxRadius 90 comes with lifetime 3 s).
ScenarioB(i) == pool[i].isClick /\ pool[i].maxRadius = 90 * FP

\* C6 as stated: the scenario's ripple has speed 30/s; after 90 frames of 1/60 s
\* it is active with a radius within 1% of 45; after 186 frames it is inactive.
C6_Original ==
    \A i \in 1..maxRipples :
        ScenarioB(i)
            => /\ pool[i].speed = 30 * FP
               /\ (Regular /\ steps = 90
                     => pool[i].active /\ 100 * Abs(pool[i].radius - 45 * FP) <= 45 * FP)
               /\ (Regular /\ steps = 186 => ~pool[i].active)

\* C6, amended: the scenario's ripple has speed 30/s; after 90 frames of 1/60 s it
\* is active with a radius within 1% of 47, the initial radius 2 plus 30 * 1.5;
\* after 186 frames it is inactive.
C6_ScenarioB ==
    \A i \in 1..maxRipples :
        ScenarioB(i)
            => /\ pool[i].speed = 30 * FP
               /\ (Regular /\ steps = 90
                     => pool[i].active /\ 100 * Abs(pool[i].radius - 47 * FP) <= 47 * FP)
               /\ (Regular /\ steps = 186 => ~pool[i].active)

\* The scenario's ripple, active after 1.5 s of frames.
C6_Witness ==
    /\ Regular
    /\ steps = 90
    /\ \E i \in 1..maxRipples : ScenarioB(i) /\ pool[i].active

\* The progress updateRipples computes for slot i from the radius it has just
\* advanced: radius / maxRadius.
Progress(i) == Div(pool[i].radius, pool[i].maxRadius)

\* C18: a tick leaves the opacity of a ripple that was active as it was while
\* the ripple's radius / maxRadius is at most 0.3 and never raises it once that
\* is above 0.3; and in every state between ticks an active ripple has radius
\* below maxRadius and opacity at least 0.05.
C18_Fade ==
    /\ [][lastOp'.name = "updateRipples" /\ steps' = steps + 1 =>
            \A i \in 1..maxRipples :
                pool[i].active =>
                    /\ Progress(i)' <= 300000 => pool'[i].opacity = pool[i].opacity
                    /\ Progress(i)' > 300000 => pool'[i].opacity <= pool[i].opacity]_vars
    /\ [](\A i \in 1..maxRipples :
             pool[i].active
                 => pool[i].radius < pool[i].maxRadius /\ pool[i].opacity >= 50000)

\* After a frame one click ripple has grown and still has the opacity of its
\* spawn, at no more than 30% of its way, while another is past 30% and fainter
\* than it was spawned.
C18_Witness ==
    /\ lastOp.name = "updateRipples"
    /\ \E i, j \in 1..maxRipples :
           /\ pool[i].active /\ pool[i].isClick
           /\ pool[i].radius > 2 * FP
           /\ Progress(i) <= 300000
           /\ pool[i].opacity = 900000
           /\ pool[j].active /\ pool[j].isClick
           /\ Progress(j) > 300000
           /\ pool[j].opacity < 600000

----------------------------------------------------------------------------
(* The dither pass on its own: canvases of several sizes and contents in   *)
(* both themes, with the pass, the background fill and the size select in  *)
(* any order                                                               *)

MaxDitherOps == 3

\* Canvas sizes: a single pixel, sizes below and above every block size, and
\* none of them a multiple of all block sizes.
CanvasWidths == {1, 5, 16, 18}

CanvasHeights == {1, 6, 17}

\* The values of the dither select.
DitherSizes == {0, 4, 8, 12, 16}

Themes == {"dark", "light"}

OtherTheme(theme) == IF theme = "dark" THEN "light" ELSE "dark"

\* What a canvas holds before the pass: the plain background, a background
\* that is off by 9 per channel in every other pixel, foreground stripes on the
\* background, a mid grey, and the background of the other theme.
Contents == {"background", "near", "stripes", "grey", "other"}

picture(content, width, height, theme) ==
    LET colors == getColors(theme)
        near == [r |-> colors.bg.r - 9, g |-> colors.bg.g - 9, b |-> colors.bg.b - 9]
        grey == [r |-> 128, g |-> 128, b |-> 128]
    IN  [i \in 0..(width * height - 1) |->
            CASE content = "background" -> rgba(colors.bg, 255)
              [] content = "near" ->
                    IF ((i % width) + (i \div width)) % 2 = 0 THEN rgba(near, 255)
                                                          ELSE rgba(colors.bg, 255)
              [] content = "stripes" ->
                    IF ((i % width) + 2 * (i \div width)) % 5 < 2 THEN rgba(colors.fg, 255)
                                                                ELSE rgba(colors.bg, 255)
              [] content = "grey" -> rgba(grey, 255)
              [] OTHER -> rgba(getColors(OtherTheme(theme)).bg, 255)]

InitDither ==
    /\ intensity = baselineDefault
    /\ baselineIntensity = baselineDefault
    /\ windTime = 0
    /\ perm = seedNoise([w |-> 12345, h |-> 1])
    /\ permId = 0
    /\ pool = initRipplePool
    /\ spawnAccumulator = 0
    /\ timers = << >>
    /\ claimed = {}
    /\ born = [i \in 1..maxRipples |-> 0]
    /\ notified = << >>
    /\ twin = [pool |-> initRipplePool, spawnAccumulator |-> 0, timers |-> << >>]
    /\ decided = noDecision
    /\ InitApp
    /\ InitAudio
    /\ dataTheme \in Themes
    /\ ditherSize \in DitherSizes
    /\ \E width \in CanvasWidths, height \in CanvasHeights, content \in Contents :
          imageData = [width |-> width, height |-> height,
                       data |-> picture(content, width, height, dataTheme)]
    /\ ditherPass = noPass
    /\ lastOp = Op("init", 0)
    /\ steps = 0
    /\ elapsed = 0

DitherCounted ==
    /\ steps < MaxDitherOps
    /\ steps' = steps + 1
    /\ UNCHANGED <<stateVars, windVars, poolVars, appVars, audioVars, twin, decided,
                   elapsed>>

DitherPass == DitherCounted /\ ApplyDither

DitherBackground == DitherCounted /\ RenderBackground

DitherSize == DitherCounted /\ \E size \in DitherSizes : DitherSelect(size)

NextDither == DitherPass \/ DitherBackground \/ DitherSize

SpecDither == InitDither /\ [][NextDither]_vars

\* A buffer in which every pixel has the theme's background colour.
Flat(data, theme) ==
    \A i \in DOMAIN data :
        LET bg == getColors(theme).bg
        IN  data[i].r = bg.r /\ data[i].g = bg.g /\ data[i].b = bg.b

\* The blocks the pass visits on a canvas: the columns times the rows, the
\* clipped ones at the right and bottom edges included.
Blocks(width, height, size) ==
    ((width + size - 1) \div size) * ((height + size - 1) \div size)

\* C14: the dither pass leaves a canvas that holds only the current theme's
\* background colour exactly as it was, for the block sizes 4, 8, 12 and 16, in
\* both themes and on canvases whose sides are not multiples of the block
\* size; every block of such a pass takes the near-background short-circuit.
C14_DitherIdempotent ==
    [][/\ steps' = steps + 1
       /\ lastOp'.name = "applyDither"
       /\ ditherSize \in {4, 8, 12, 16}
       /\ Flat(imageData.data, dataTheme)
       => /\ imageData' = imageData
          /\ ditherPass'.blocks = Blocks(imageData.width, imageData.height, ditherSize)
          /\ ditherPass'.skipped = ditherPass'.blocks]_vars

\* A pass over a flat light-theme canvas of 18 by 17 pixels in blocks of 16:
\* four blocks, three of them clipped.
C14_Witness ==
    /\ lastOp.name = "applyDither"
    /\ ditherSize = 16
    /\ dataTheme = "light"
    /\ imageData.width = 18
    /\ imageData.height = 17
    /\ Flat(ditherPass.input, dataTheme)
    /\ ditherPass.blocks = 4

\* Whether a pixel has the colour c, whatever its alpha.
HasColor(p, c) == p.r = c.r /\ p.g = c.g /\ p.b = c.b

\* The index of the first pixel of the block of the given size pixel i lies in.
BlockStart(i, width, size) ==
    (((i \div width) \div size) * size) * width + ((i % width) \div size) * size

\* C25: after a dither pass with a block size other than 0, every block of the
\* canvas, the clipped ones included, is filled with one colour, the theme's
\* background or its foreground, so every pixel has one of the two; a pass
\* with block size 0 leaves the buffer as it was.
C25_TwoColours ==
    lastOp.name = "applyDither" =>
        IF lastOp.arg = 0 THEN imageData.data = ditherPass.input
        ELSE \A i \in DOMAIN imageData.data :
                 LET p == imageData.data[i]
                     first == imageData.data[BlockStart(i, imageData.width, lastOp.arg)]
                 IN  /\ HasColor(p, getColors(dataTheme).bg)
                        \/ HasColor(p, getColors(dataTheme).fg)
                     /\ HasColor(p, first)

\* A pass in blocks of 4 over a canvas that held neither colour alone has
\* left blocks of the foreground and blocks of the background.
C25_Witness ==
    /\ lastOp.name = "applyDither" /\ lastOp.arg = 4
    /\ imageData.width = 18 /\ imageData.height = 17
    /\ imageData.data # ditherPass.input
    /\ \E i \in DOMAIN imageData.data :
           HasColor(imageData.data[i], getColors(dataTheme).fg)
    /\ \E i \in DOMAIN imageData.data :
           HasColor(imageData.data[i], getColors(dataTheme).bg)
    /\ \E i \in DOMAIN ditherPass.input :
           /\ ~HasColor(ditherPass.input[i], getColors(dataTheme).fg)
           /\ ~HasColor(ditherPass.input[i], getColors(dataTheme).bg)

----------------------------------------------------------------------------
(* Audio engine (audio/engine.ts)                                          *)

\* The gain nodes initAudio creates and the getters of engine.ts return.
engineBuses == {"master", "dry", "reverb", "rain", "drops"}

\* The volume buses of the ambience categories, which initAudio creates as well.
ambienceBuses == {"thunder", "crickets", "windGust", "drips"}

\* The states the browser may give a context on creation.
ContextStates == {"suspended", "running"}

\* What new AudioContext() may do in start(): give a context in one of its
\* states, or throw, which rejects the promise of initAudio().
StartOutcomes == ContextStates \cup {"throws"}

\* initAudio(): the context, the buses and the number of nodes created. Where
\* the constructor throws, audioContext stays null and nothing is created.
initAudio(ctx, bs, state) ==
    IF ctx # "none"
    THEN [audioContext |-> ctx, buses |-> bs, created |-> 0, threw |-> FALSE]
    ELSE IF state = "throws"
    THEN [audioContext |-> ctx, buses |-> bs, created |-> 0, threw |-> TRUE]
    ELSE [audioContext |-> state, buses |-> engineBuses \cup ambienceBuses,
          created |-> 6 + Cardinality(ambienceBuses), threw |-> FALSE]

isAudioReady(ctx) == ctx = "running"

\* resumeAudio(): whether it calls audioContext.resume().
resumeAudio(ctx) == ctx = "suspended"

\* The parameter ramps setMasterVolume, setRainVolume and setDropsVolume schedule.
setMasterVolume(ctx, bs) == IF "master" \in bs /\ ctx # "none" THEN 1 ELSE 0

setRainVolume(ctx, bs) == IF "rain" \in bs /\ ctx # "none" THEN 1 ELSE 0

setDropsVolume(ctx, bs) == IF "drops" \in bs /\ ctx # "none" THEN 1 ELSE 0

----------------------------------------------------------------------------
(* Rain synthesis (audio/rain.ts)                                          *)

\* config.resonator.frequencies.length
resonatorCount == 5

\* initRain() without its guard: it reads ctx.currentTime of a null context.
initRainUnguarded(ctx, bs, r, run) ==
    [rain |-> [r EXCEPT !.isRunning = TRUE, !.noiseNode = TRUE, !.exciteGain = TRUE,
                        !.resonators = resonatorCount, !.windLFOs = resonatorCount],
     running |-> [run EXCEPT !.rainLFOs = @ + resonatorCount,
                             !.rainNoise = (IF r.noiseNode THEN @ - 1 ELSE @) + 1],
     created |-> 10 + 3 * resonatorCount,
     connected |-> {"rain", "dry", "reverb"},
     threw |-> ctx = "none"]

\* initRain(): the module variables, the sources running, the nodes created and the
\* engine nodes connected to.
initRain(ctx, bs, r, run) ==
    IF ctx = "none" \/ ~({"dry", "reverb", "rain"} \subseteq bs)
    THEN [rain |-> r, running |-> run, created |-> 0, connected |-> {},
          threw |-> FALSE]
    ELSE [rain |-> [r EXCEPT !.isRunning = TRUE, !.noiseNode = TRUE,
                             !.exciteGain = TRUE,
                             !.resonators = resonatorCount,
                             !.windLFOs = resonatorCount],
          running |-> [run EXCEPT !.rainLFOs = @ + resonatorCount,
                                  !.rainNoise = (IF r.noiseNode THEN @ - 1 ELSE @) + 1],
          created |-> 10 + 3 * resonatorCount,
          connected |-> {"rain", "dry", "reverb"},
          threw |-> FALSE]

\* The parameter ramps updateRain() schedules.
updateRain(ctx, r) ==
    IF ~r.isRunning \/ ctx = "none" THEN 0 ELSE 2 + r.resonators

\* The parameter ramps updateWindModulation(windStrength) schedules.
updateWindModulation(ctx, r) ==
    IF ~r.isRunning \/ ctx = "none" THEN 0 ELSE r.windLFOs

\* config.resonator.baseQ and maxQ
baseQ == 5

maxQ == 10

\* triggerClickExcitation() without its clearTimeout.
triggerClickExcitationKeep(ctx, r) ==
    IF ~r.isRunning \/ ~r.exciteGain \/ ctx = "none" THEN [rain |-> r, params |-> 0]
    ELSE [rain |-> [r EXCEPT !.exciteDecayTimeout = r.timeoutSeq + 1,
                             !.decayPending = @ \cup {r.timeoutSeq + 1},
                             !.timeoutSeq = @ + 1],
          params |-> 4 + 3 * r.resonators]

\* triggerClickExcitation(): the module variables and the ramps scheduled. The
\* timer the module holds is cleared, and a new one is set and held.
triggerClickExcitation(ctx, r) ==
    IF ~r.isRunning \/ ~r.exciteGain \/ ctx = "none" THEN [rain |-> r, params |-> 0]
    ELSE [rain |-> [r EXCEPT !.exciteDecayTimeout = r.timeoutSeq + 1,
                             !.decayPending = (@ \ {r.exciteDecayTimeout})
                                              \cup {r.timeoutSeq + 1},
                             !.timeoutSeq = @ + 1],
          params |-> 4 + 3 * r.resonators]

\* The callback of the excitation decay timer: the ramps it schedules and the
\* Q it sends the resonators to, read from the intensity value as it fires.
exciteDecay(ctx, r) ==
    IF ~r.isRunning \/ ctx = "none" THEN 0 ELSE r.resonators

exciteTargetQ(ctx, r, value) ==
    IF ~r.isRunning \/ ctx = "none" THEN 0 ELSE lerp(baseQ * FP, maxQ * FP, value)

\* stopRain(): the module variables and the sources running.
stopRain(r, run) ==
    [rain |-> [r EXCEPT !.isRunning = FALSE, !.noiseNode = FALSE,
                        !.resonators = 0, !.windLFOs = 0,
                        !.exciteDecayTimeout = null,
                        !.decayPending = @ \ {r.exciteDecayTimeout}],
     running |-> [run EXCEPT !.rainNoise = IF r.noiseNode THEN @ - 1 ELSE @,
                             !.rainLFOs = @ - r.windLFOs]]

----------------------------------------------------------------------------
(* Transient sounds (audio/transient.ts)                                   *)

\* The nodes a drop or a drip creates; ping tells whether the resonant ping plays.
transientNodes(bs, ping) ==
    (6 + IF "drops" \in bs THEN 2 ELSE 0)
    + (IF ping THEN 4 + IF "drops" \in bs THEN 2 ELSE 0 ELSE 0)

transientBuses(bs) == IF "drops" \in bs THEN {"drops", "dry", "reverb"} ELSE {}

\* playDropSound(x): the nodes created and the engine nodes connected to.
playDropSound(ctx, bs, ping) ==
    IF ctx = "none" \/ ~({"dry", "reverb"} \subseteq bs)
    THEN [created |-> 0, connected |-> {}]
    ELSE [created |-> transientNodes(bs, ping), connected |-> transientBuses(bs)]

\* playDripSound(x): the same.
playDripSound(ctx, bs, ping) ==
    IF ctx = "none" \/ ~({"dry", "reverb"} \subseteq bs)
    THEN [created |-> 0, connected |-> {}]
    ELSE [created |-> transientNodes(bs, ping), connected |-> transientBuses(bs)]


----------------------------------------------------------------------------
(* Ambience (audio/ambience.ts)                                            *)

\* initWindGust(): the module variables, the sources running, the nodes created
\* and the engine nodes connected to.
initWindGust(ctx, bs, a, run) ==
    IF ctx = "none" \/ ~({"dry", "reverb", "windGust"} \subseteq bs)
    THEN [ambience |-> a, running |-> run, created |-> 0, connected |-> {}]
    ELSE [ambience |-> [a EXCEPT !.windNoise = TRUE, !.windLFO = TRUE],
          running |-> [run EXCEPT !.windNoise = @ + 1, !.windLFO = @ + 1],
          created |-> 7,
          connected |-> {"windGust", "dry", "reverb"}]

\* initAmbience(): the same, with the scheduler's interval set.
initAmbience(ctx, bs, a, run) ==
    LET reset == [a EXCEPT !.isRunning = TRUE, !.nextThunderTime = 0,
                           !.nextCricketTime = 0, !.nextDripTime = 0]
        gust == initWindGust(ctx, bs, reset, run)
    IN  [gust EXCEPT !.ambience.schedulerInterval = TRUE,
                     !.running.intervals = @ + 1]

\* A turn that finds the cursor in the past moves it to the present, where the
\* layer's sound is then played.
layerTimeKept(next, now, layer, d) == next

\* The time a turn of a layer's loop decides for: the cursor, moved up to now
\* (plus the layer's delay) if it lies in the past.
layerTime(next, now, layer, d) ==
    IF next < now THEN now + layer.late + Mul(d.late, layer.lateSpread) ELSE next

\* One layer's loop in scheduleAmbience: the cursor next is moved past the
\* lookahead window, and a sound is scheduled where the gate draw is below chance.
\* d holds the draws; a layer is a record of its constants. decisions are the
\* times the turns of the loop decided for, played or not.
RECURSIVE scheduleLayer(_, _, _, _, _, _)
scheduleLayer(next, now, layer, d, sounds, decisions) ==
    IF next >= now + layer.lookahead
    THEN [next |-> next, sounds |-> sounds, decisions |-> decisions]
    ELSE LET at == layerTime(next, now, layer, d)
             played == IF d.gate < layer.chance /\ layer.bus
                       THEN sounds \cup {[layer |-> layer.name, at |-> at]}
                       ELSE sounds
         IN  scheduleLayer(at + layer.interval + Mul(d.interval, layer.spread),
                           now, layer, d, played, Append(decisions, at))

thunderLayer(bs) ==
    [name |-> "thunder", lookahead |-> FP, late |-> 5 * FP, lateSpread |-> 10 * FP,
     chance |-> 400000, interval |-> 10 * FP, spread |-> 20 * FP,
     bus |-> {"dry", "reverb", "thunder"} \subseteq bs]

cricketLayer(bs) ==
    [name |-> "cricket", lookahead |-> FP \div 2, late |-> 0, lateSpread |-> 0,
     chance |-> 600000, interval |-> FP, spread |-> 3 * FP,
     bus |-> {"dry", "reverb", "crickets"} \subseteq bs]

\* A drip layer whose intervals start at one second.
dripLayerShort(bs) ==
    [name |-> "drip", lookahead |-> FP \div 2, late |-> FP, lateSpread |-> 0,
     chance |-> 500000, interval |-> FP, spread |-> 4 * FP,
     bus |-> {"dry", "reverb", "drips"} \subseteq bs]

dripLayer(bs) ==
    [name |-> "drip", lookahead |-> FP \div 2, late |-> FP, lateSpread |-> 0,
     chance |-> 500000, interval |-> 2 * FP, spread |-> 4 * FP,
     bus |-> {"dry", "reverb", "drips"} \subseteq bs]

\* scheduleAmbience() at device time now: the module variables and the sounds
\* scheduled.
scheduleAmbience(ctx, bs, a, now, d) ==
    IF ctx = "none" \/ ~a.isRunning
    THEN [ambience |-> a, sounds |-> {},
          decisions |-> [thunder |-> << >>, cricket |-> << >>, drip |-> << >>]]
    ELSE LET thunder == scheduleLayer(a.nextThunderTime, now, thunderLayer(bs), d,
                                      {}, << >>)
             cricket == scheduleLayer(a.nextCricketTime, now, cricketLayer(bs), d,
                                      {}, << >>)
             drip == scheduleLayer(a.nextDripTime, now, dripLayer(bs), d, {}, << >>)
         IN  [ambience |-> [a EXCEPT !.nextThunderTime = thunder.next,
                                     !.nextCricketTime = cricket.next,
                                     !.nextDripTime = drip.next],
              sounds |-> thunder.sounds \cup cricket.sounds \cup drip.sounds,
              decisions |-> [thunder |-> thunder.decisions,
                             cricket |-> cricket.decisions,
                             drip |-> drip.decisions]]

\* stopAmbience(): the module variables, the sources running and the intervals set.
stopAmbience(a, run) ==
    [ambience |-> [a EXCEPT !.isRunning = FALSE, !.schedulerInterval = FALSE,
                            !.windNoise = FALSE, !.windLFO = FALSE],
     running |-> [run EXCEPT !.intervals = IF a.schedulerInterval THEN @ - 1 ELSE @,
                             !.windNoise = IF a.windNoise THEN @ - 1 ELSE @,
                             !.windLFO = IF a.windLFO THEN @ - 1 ELSE @]]


----------------------------------------------------------------------------
(* The application (main.ts)                                               *)

\* The variables the handlers of main.ts leave alone unless they say otherwise.
simulation == <<stateVars, windVars, poolVars, renderVars, twin, decided>>

\* start(): what it makes of main.ts's and the audio modules' variables. state is
\* the state the browser gives a new context. The awaits of start and startAudio
\* suspend only at audioContext.resume(), so the rest runs before any other event.
\* startVisuals() has run by the time startAudio() is called: where initAudio()
\* rejects, startAudio() and start() reject after the frame has been requested.
start(state) ==
    LET fresh == ~isPlaying
        setup == fresh /\ ~audioInitialized
        engine == IF setup THEN initAudio(audioContext, buses, state)
                  ELSE [audioContext |-> audioContext, buses |-> buses, created |-> 0,
                        threw |-> FALSE]
        done == setup /\ ~engine.threw
        r == IF done THEN initRain(engine.audioContext, engine.buses, rain, running)
             ELSE [rain |-> rain, running |-> running, created |-> 0,
                   connected |-> {}, threw |-> FALSE]
        a == IF done
             THEN initAmbience(engine.audioContext, engine.buses, ambience, r.running)
             ELSE [ambience |-> ambience, running |-> r.running, created |-> 0,
                   connected |-> {}]
    IN  [isPlaying |-> TRUE,
         lastTime |-> IF fresh THEN 0 ELSE lastTime,
         animationId |-> IF fresh THEN frameSeq + 1 ELSE animationId,
         frameRequests |-> IF fresh THEN frameRequests \cup {frameSeq + 1}
                           ELSE frameRequests,
         frameSeq |-> IF fresh THEN frameSeq + 1 ELSE frameSeq,
         audioInitialized |-> audioInitialized \/ (fresh /\ ~engine.threw),
         audioContext |-> engine.audioContext,
         buses |-> engine.buses,
         rain |-> r.rain,
         ambience |-> a.ambience,
         running |-> a.running,
         connected |-> connected \cup r.connected \cup a.connected,
         created |-> engine.created + r.created + a.created,
         resume |-> fresh /\ ~engine.threw /\ resumeAudio(engine.audioContext),
         rejected |-> engine.threw,
         calls |-> IF ~fresh THEN <<"start">>
                   ELSE <<"start", "startVisuals">>
                        \o (IF setup THEN <<"initAudio">> ELSE << >>)
                        \o (IF done THEN <<"initRain", "initAmbience">> ELSE << >>)
                        \o (IF engine.threw THEN << >> ELSE <<"resumeAudio">>)]

\* The assignments of start(), given what it makes of the variables.
Started(out) ==
    /\ isPlaying' = out.isPlaying
    /\ lastTime' = out.lastTime
    /\ animationId' = out.animationId
    /\ frameRequests' = out.frameRequests
    /\ frameSeq' = out.frameSeq
    /\ audioInitialized' = out.audioInitialized
    /\ audioContext' = out.audioContext
    /\ buses' = out.buses
    /\ rain' = out.rain
    /\ ambience' = out.ambience
    /\ running' = out.running
    /\ resumePending' = (resumePending \/ out.resume)

\* stop() leaving the frame request with the browser.
stopKeepFrame(id, requests) == [animationId |-> id, frameRequests |-> requests]

\* stop(): animationId and the frame requests the browser holds.
\* stop() forgetting the id without cancelling the request.
stopForgetFrame(id, requests) == [animationId |-> null, frameRequests |-> requests]

stop(id, requests) ==
    IF id # null THEN [animationId |-> null, frameRequests |-> requests \ {id}]
    ELSE [animationId |-> id, frameRequests |-> requests]

\* The assignments of stop().
Stopped ==
    LET frame == stop(animationId, frameRequests)
        r == stopRain(rain, running)
        a == stopAmbience(ambience, r.running)
    IN  /\ isPlaying' = FALSE
        /\ animationId' = frame.animationId
        /\ frameRequests' = frame.frameRequests
        /\ rain' = r.rain
        /\ ambience' = a.ambience
        /\ running' = a.running
        /\ UNCHANGED <<frameSeq, audioInitialized, lastTime, engineVars, connected>>

\* The first drop of skipIntro and the drop of a canvas click: addImpulse(),
\* spawnClickRipple(x, y) with the draws c, and playDropSound if audio is ready.
\* before and conn are what the handler did to the audio device before the drop.
Drop(x, y, c, ping, ctx, bs, before, conn) ==
    LET after == spawnClickRipple(pool, timers, x, y, c.life, c.radius)
        sound == IF isAudioReady(ctx) THEN playDropSound(ctx, bs, ping)
                 ELSE [created |-> 0, connected |-> {}]
    IN  /\ intensity' = addImpulse(intensity, clickImpulseStrength)
        /\ pool' = after.pool
        /\ timers' = after.timers
        /\ claimed' = Claimed(pool, after.pool)
        /\ born' = Born(claimed')
        /\ notified' = << >>
        /\ effect' = [before EXCEPT
                        !.created = @ + sound.created,
                        !.calls = @ \o <<"addImpulse", "spawnClickRipple">>
                                    \o IF isAudioReady(ctx) THEN <<"playDropSound">>
                                       ELSE << >>]
        /\ connected' = conn \cup sound.connected
        /\ UNCHANGED <<renderVars, twin, decided, baselineIntensity, windVars, spawnAccumulator>>

\* skipIntro(clickX, clickY) while the intro is not complete; position is << >>
\* where the call has no arguments.
SkipIntro(position) ==
    /\ introComplete' = TRUE
    /\ introTimers' = introTimers \cup {"start", "hide"}
    /\ firstDrop' = position
    /\ effect' = noEffect
    /\ UNCHANGED <<isPlaying, animationId, frameRequests, frameSeq, audioInitialized,
                   lastTime, awaiting, engineVars, synthVars, threw, simulation>>

\* A handler that changes nothing the model holds.
Nothing ==
    /\ effect' = noEffect
    /\ UNCHANGED <<appVars, engineVars, synthVars, threw, simulation>>

\* The seeds reseedNoise() draws: a whole one, and one with a fractional part.
AppSeeds == {[w |-> 40503, h |-> 0], [w |-> 7, h |-> 1]}

\* The tables seedNoise builds from these seeds, each computed once.
reseedNoise == [seed \in AppSeeds |-> seedNoise(seed)]

\* reseedNoise() draws seed; then resetWind(), resetState(), clearRipples().
Reseed(seed) ==
    /\ perm' = reseedNoise[seed]
    /\ permId' = permId + 1
    /\ windTime' = resetWind
    /\ intensity' = resetState(baselineIntensity)
    /\ pool' = clearRipples(pool)
    /\ spawnAccumulator' = 0
    /\ claimed' = {}
    /\ born' = Born(claimed')
    /\ notified' = << >>
    /\ effect' = [noEffect EXCEPT
                    !.calls = <<"reseedNoise", "resetWind", "resetState",
                                "resetShimmer", "clearRipples">>]
    /\ UNCHANGED <<renderVars, twin, decided, baselineIntensity, timers, appVars, engineVars, synthVars, threw>>


\* The click handler without its return while paused.
CanvasClickWhilePaused(x, y, c, ping) ==
    /\ IF ~introComplete THEN SkipIntro(<<x, y>>)
       ELSE /\ Drop(x, y, c, ping, audioContext, buses, noEffect, connected)
            /\ UNCHANGED <<appVars, engineVars, rain, ambience, running, threw>>
    /\ lastOp' = Op("canvasClick", x)

\* The click handler of the canvas, for a click at (x, y).
CanvasClick(x, y, c, ping) ==
    /\ IF ~introComplete THEN SkipIntro(<<x, y>>)
       ELSE IF ~isPlaying THEN Nothing
       ELSE /\ Drop(x, y, c, ping, audioContext, buses, noEffect, connected)
            /\ UNCHANGED <<appVars, engineVars, rain, ambience, running, threw>>
    /\ lastOp' = Op("canvasClick", x)

\* The click handler of the intro element.
IntroClick(x, y) ==
    /\ IF introComplete THEN Nothing ELSE SkipIntro(<<x, y>>)
    /\ lastOp' = Op("introClick", x)

\* toggle()
Toggle(state) ==
    IF isPlaying
    THEN /\ Stopped
         /\ effect' = [noEffect EXCEPT !.calls = <<"stop">>]
         /\ UNCHANGED <<introComplete, introTimers, firstDrop, awaiting, threw,
                        simulation>>
    ELSE LET out == start(state)
         IN  /\ Started(out)
             /\ connected' = out.connected
             /\ effect' = [noEffect EXCEPT !.created = out.created,
                                           !.resume = out.resume,
                                           !.calls = out.calls]
             /\ UNCHANGED <<introComplete, introTimers, firstDrop, awaiting,
                            audioTime, threw, simulation>>

\* The keydown handler for the space bar.
KeySpace(state) ==
    /\ IF ~introComplete THEN SkipIntro(<<Width \div 2, Height \div 2>>)
       ELSE Toggle(state)
    /\ lastOp' = Op("keydown", 32)

\* The keydown handler for 'r', and the listener of drops:reseed.
KeyR(seed) == Reseed(seed) /\ lastOp' = Op("keydown", 82)

ReseedEvent(seed) == Reseed(seed) /\ lastOp' = Op("drops:reseed", 0)

\* The keydown handlers for 'h' and 't': toggleSidebar() and toggleTheme() change
\* the document only.
KeyH == Nothing /\ lastOp' = Op("keydown", 72)

KeyT == Nothing /\ lastOp' = Op("keydown", 84)

\* The callback of the timer set at load: skipIntro() after four seconds.
AutoSkipTimer ==
    /\ "autoSkip" \in introTimers
    /\ IF introComplete
       THEN /\ introTimers' = introTimers \ {"autoSkip"}
            /\ effect' = noEffect
            /\ UNCHANGED <<isPlaying, animationId, frameRequests, frameSeq,
                           audioInitialized, introComplete, lastTime, firstDrop,
                           awaiting, engineVars, synthVars, threw, simulation>>
       ELSE /\ introComplete' = TRUE
            /\ introTimers' = (introTimers \ {"autoSkip"}) \cup {"start", "hide"}
            /\ firstDrop' = << >>
            /\ effect' = noEffect
            /\ UNCHANGED <<isPlaying, animationId, frameRequests, frameSeq,
                           audioInitialized, lastTime, awaiting, engineVars,
                           synthVars, threw, simulation>>
    /\ lastOp' = Op("autoSkip", 0)

\* The callback of skipIntro's second timer: it hides the intro element.
HideTimer ==
    /\ "hide" \in introTimers
    /\ introTimers' = introTimers \ {"hide"}
    /\ effect' = noEffect
    /\ UNCHANGED <<isPlaying, animationId, frameRequests, frameSeq, audioInitialized,
                   introComplete, lastTime, firstDrop, awaiting, engineVars,
                   synthVars, threw, simulation>>
    /\ lastOp' = Op("hideIntro", 0)

\* The callback of skipIntro's first timer: await start(), then the first drop.
\* Where start() called audioContext.resume(), the drop waits for its promise;
\* where start() rejected, the callback ends without the drop.
StartTimer(state, c, ping) ==
    LET out == start(state)
        did == [noEffect EXCEPT !.created = out.created, !.resume = out.resume,
                                !.calls = out.calls]
    IN  /\ "start" \in introTimers
        /\ introTimers' = introTimers \ {"start"}
        /\ Started(out)
        /\ awaiting' = out.resume
        /\ IF out.resume \/ out.rejected \/ firstDrop = << >>
           THEN /\ effect' = did
                /\ connected' = out.connected
                /\ firstDrop' = IF out.resume THEN firstDrop ELSE << >>
                /\ UNCHANGED simulation
           ELSE /\ Drop(firstDrop[1], firstDrop[2], c, ping, out.audioContext,
                        out.buses, did, out.connected)
                /\ firstDrop' = << >>
        /\ UNCHANGED <<introComplete, audioTime, threw>>
        /\ lastOp' = Op("startTimer", 0)

\* The browser resumes the device: the promises of resume() resolve, and the
\* callback waiting in await start() goes on to the first drop.
ResumeResolved(c, ping) ==
    /\ resumePending
    /\ audioContext' = "running"
    /\ resumePending' = FALSE
    /\ awaiting' = FALSE
    /\ firstDrop' = IF awaiting THEN << >> ELSE firstDrop
    /\ IF awaiting /\ firstDrop # << >>
       THEN Drop(firstDrop[1], firstDrop[2], c, ping, "running", buses, noEffect,
                 connected)
       ELSE effect' = noEffect /\ UNCHANGED <<connected, simulation>>
    /\ UNCHANGED <<isPlaying, animationId, frameRequests, frameSeq, audioInitialized,
                   introComplete, lastTime, introTimers, buses, audioTime, rain,
                   ambience, running, threw>>
    /\ lastOp' = Op("resumeResolved", 0)

\* The browser refuses: the promises reject, and the callback waiting in
\* await start() ends there.
ResumeRejected ==
    /\ resumePending
    /\ resumePending' = FALSE
    /\ awaiting' = FALSE
    /\ firstDrop' = IF awaiting THEN << >> ELSE firstDrop
    /\ effect' = noEffect
    /\ UNCHANGED <<isPlaying, animationId, frameRequests, frameSeq, audioInitialized,
                   introComplete, lastTime, introTimers, audioContext, buses,
                   audioTime, synthVars, threw, simulation>>
    /\ lastOp' = Op("resumeRejected", 0)

\* The browser suspends a running device.
ContextInterrupted ==
    /\ audioContext = "running"
    /\ audioContext' = "suspended"
    /\ effect' = noEffect
    /\ UNCHANGED <<appVars, buses, resumePending, audioTime, synthVars, threw,
                   simulation>>
    /\ lastOp' = Op("interrupted", 0)


\* The calls of render(time), in order.
\* A delta that subtracts lastTime whatever it holds.
renderDeltaSinceLast(time, last) == time - last

\* render()'s delta for the frame at time: lastTime ? time - lastTime : 0.
renderDelta(time, last) == IF last # 0 THEN time - last ELSE 0

\* A render() that updates the rain whether or not the audio is ready.
renderCallsWithRain(ready) ==
    <<"updateState", "updateWind", "updateRipples", "updateRain",
      "renderBackground", "renderRipples", "applyDither">>

renderCalls(ready) ==
    <<"updateState", "updateWind", "updateRipples">>
    \o (IF ready THEN <<"updateRain">> ELSE << >>)
    \o <<"renderBackground", "renderRipples", "applyDither">>

\* render(time), the callback of frame request id, gap after the frame before it.
\* The ambient spawns call playDripSound (Math.random() < config.dripChance holds
\* for every draw, dripChance being 1.0), and updateRain() follows if audio is ready.
\* Of the three drawing calls the order is kept, not the picture they draw.
Render(id, gap, uThreshold, d, ping) ==
    LET time == elapsed + gap
        delta == renderDelta(time, lastTime)
        value == updateState(intensity, baselineIntensity, delta)
        wind == updateWind(windTime, delta)
        spawnRate == lerp(rippleSpawnRateMin, rippleSpawnRateMax, value)
        drained == drainAccumulator(pool, spawnAccumulator + Mul(delta, spawnRate),
                                    600000 + Mul(uThreshold, 800000),
                                    Width, Height, d)
        after == updateRipples(pool, spawnAccumulator, value, perm, wind, delta,
                               Width, Height, uThreshold, d)
        spawned == Claimed(pool, drained.pool)
        ready == isAudioReady(audioContext)
        drip == IF ready THEN playDripSound(audioContext, buses, ping)
                ELSE [created |-> 0, connected |-> {}]
    IN  /\ id \in frameRequests
        /\ elapsed' = time
        /\ lastTime' = time
        /\ intensity' = value
        /\ windTime' = wind
        /\ pool' = after.pool
        /\ spawnAccumulator' = after.acc
        /\ claimed' = spawned
        /\ born' = Born(claimed')
        /\ notified' = drainNotified(pool, spawnAccumulator + Mul(delta, spawnRate),
                                     600000 + Mul(uThreshold, 800000), Width, Height, d)
        /\ effect' = [noEffect EXCEPT
                        !.created = Cardinality(spawned) * drip.created,
                        !.params = IF ready THEN updateRain(audioContext, rain)
                                   ELSE 0,
                        !.calls = renderCalls(ready)]
        /\ connected' = IF spawned = {} THEN connected
                        ELSE connected \cup drip.connected
        /\ IF isPlaying
           THEN /\ animationId' = frameSeq + 1
                /\ frameRequests' = (frameRequests \ {id}) \cup {frameSeq + 1}
                /\ frameSeq' = frameSeq + 1
           ELSE /\ frameRequests' = frameRequests \ {id}
                /\ UNCHANGED <<animationId, frameSeq>>
        /\ UNCHANGED <<renderVars, twin, decided, baselineIntensity, perm, permId, timers, isPlaying,
                       audioInitialized, introComplete, introTimers, firstDrop,
                       awaiting, engineVars, rain, ambience, running, threw>>
        /\ lastOp' = Op("render", delta)

\* The callback of the k-th pending timer of the secondary rings.
RingTimer(k, uLife) ==
    LET after == spawnSecondaryRipple(pool, timers[k].x, timers[k].y,
                                      timers[k].maxRadius, uLife)
    IN  /\ CanFire(k)
        /\ pool' = after
        /\ timers' = RemoveAt(timers, k)
        /\ claimed' = Claimed(pool, after)
        /\ born' = Born(claimed')
        /\ notified' = << >>
        /\ effect' = noEffect
        /\ UNCHANGED <<renderVars, twin, decided, spawnAccumulator, stateVars, windVars, appVars, engineVars,
                       synthVars, threw>>
        /\ lastOp' = Op("spawnSecondaryRipple", getFromPool(pool))

\* The period of the scheduler's interval, in microseconds of device time.
schedulerPeriod == 100000

\* A layer's last two decisions after it has decided for the times in made.
RECURSIVE LastTwo(_, _)
LastTwo(two, made) ==
    IF made = << >> THEN two
    ELSE LastTwo([previous |-> two.last, last |-> Head(made)], Tail(made))

Decided(made) == [layer \in DOMAIN decided |-> LastTwo(decided[layer], made[layer])]

\* scheduleAmbience(), the callback of the interval initAmbience sets, called
\* when the device clock has moved on by gap if the device is running.
SchedulerCallback(gap, d) ==
    LET now == IF audioContext = "running" THEN audioTime + gap ELSE audioTime
        out == scheduleAmbience(audioContext, buses, ambience, now, d)
    IN  /\ running.intervals > 0
        /\ audioTime' = now
        /\ ambience' = out.ambience
        /\ decided' = Decided(out.decisions)
        /\ effect' = [noEffect EXCEPT !.sounds = out.sounds]
        /\ UNCHANGED <<appVars, audioContext, buses, resumePending, rain, running,
                       connected, threw, stateVars, windVars, poolVars, renderVars,
                       twin>>
        /\ lastOp' = Op("scheduleAmbience", now)

\* The callback on time: the device clock has moved on by the period.
SchedulerTick(d) == SchedulerCallback(schedulerPeriod, d)

\* The input handlers of the volume sliders and of the intensity slider.
VolumeSlider(name, params) ==
    /\ effect' = [noEffect EXCEPT !.params = params]
    /\ UNCHANGED <<appVars, engineVars, synthVars, threw, simulation>>
    /\ lastOp' = Op(name, 0)

MasterVolumeSlider ==
    VolumeSlider("setMasterVolume", setMasterVolume(audioContext, buses))

RainVolumeSlider == VolumeSlider("setRainVolume", setRainVolume(audioContext, buses))

DropsVolumeSlider ==
    VolumeSlider("setDropsVolume", setDropsVolume(audioContext, buses))

IntensitySlider(percent) ==
    /\ baselineIntensity' = sliderBaseline(percent)
    /\ effect' = noEffect
    /\ UNCHANGED <<renderVars, twin, decided, intensity, windVars, poolVars, appVars, engineVars, synthVars,
                   threw>>
    /\ lastOp' = Op("intensitySlider", percent)

----------------------------------------------------------------------------
(* The application: its handlers, timers and frames in any order           *)

\* The most handlers, callbacks and browser events one behaviour has.
MaxAppOps == 5

AppCounted == steps < MaxAppOps /\ steps' = steps + 1

\* The draws of a click's ripple, and whether a drop's resonant ping plays.
AppClick == [life |-> 500000, radius |-> 0]

\* The gaps between frames: one sixtieth of a second, and a slow frame.
FrameGaps == {(FP + 30) \div 60, FP \div 4}

\* The draws of a scheduler tick: every layer plays, and none does.
SchedulerDraws ==
    {[late |-> 0, gate |-> 0, interval |-> 0],
     [late |-> 500000, gate |-> 999999, interval |-> 999999]}

\* A handler or callback other than a frame: it is counted, and no frame time
\* passes.
AppStep(handler) == AppCounted /\ handler /\ UNCHANGED elapsed

AppDrops == [FastBright EXCEPT !.decrement = 500000]

NextApp ==
    \/ AppStep(CanvasClick(400 * FP, 300 * FP, AppClick, FALSE))
    \/ AppStep(IntroClick(400 * FP, 300 * FP))
    \/ AppStep(\E state \in StartOutcomes : KeySpace(state))
    \/ AppStep(\E seed \in AppSeeds : KeyR(seed))
    \/ AppStep(KeyH)
    \/ AppStep(KeyT)
    \/ AppStep(\E seed \in AppSeeds : ReseedEvent(seed))
    \/ AppStep(MasterVolumeSlider)
    \/ AppStep(RainVolumeSlider)
    \/ AppStep(DropsVolumeSlider)
    \/ AppStep(IntensitySlider(80))
    \/ AppStep(AutoSkipTimer)
    \/ AppStep(HideTimer)
    \/ AppStep(\E state \in StartOutcomes : StartTimer(state, AppClick, FALSE))
    \/ AppStep(\E k \in 1..Len(timers) : RingTimer(k, 500000))
    \/ AppStep(\E d \in SchedulerDraws : SchedulerTick(d))
    \/ AppStep(ResumeResolved(AppClick, FALSE))
    \/ AppStep(ResumeRejected)
    \/ AppStep(ContextInterrupted)
    \/ /\ AppCounted
       /\ \E id \in frameRequests, gap \in FrameGaps :
              Render(id, gap, 0, AppDrops, FALSE)

Spec == InitOneSeed /\ [][NextApp]_vars


\* The entries of table are the numbers 0..PermSize-1, each once.
Permutation(table) ==
    {table[i] : i \in 0..(PermSize - 1)} = 0..(PermSize - 1)

Reseeded(op) == (op.name = "keydown" /\ op.arg = 82) \/ op.name = "drops:reseed"

\* C7: a reseed (key 'r' or the drops:reseed event), from any state and whether
\* playing or paused, leaves intensity equal to the current baseline, the wind time
\* 0, every pool slot inactive and the spawn accumulator 0, and installs a new noise
\* permutation: a new table whose entries are a permutation of 0..255.
C7_Reseed ==
    [][Reseeded(lastOp') /\ steps' = steps + 1 =>
           /\ intensity' = baselineIntensity'
           /\ windTime' = 0
           /\ \A i \in 1..Len(pool') : ~pool'[i].active
           /\ spawnAccumulator' = 0
           /\ permId' # permId
           /\ Permutation(perm')]_vars

\* The sources stop() stops and the interval it clears are stopped and cleared.
Silent ==
    /\ running = noneRunning
    /\ ~rain.isRunning /\ ~rain.noiseNode /\ rain.windLFOs = 0
    /\ ~ambience.isRunning /\ ~ambience.schedulerInterval
    /\ ~ambience.windNoise /\ ~ambience.windLFO

\* C8: while playback is stopped the browser holds no frame request and no render
\* tick runs until the next start(); the rain noise loop, the resonator LFOs and
\* the wind-gust noise and LFO are stopped and released; and the scheduler's
\* interval is cleared, so no scheduler tick runs and none schedules a sound.
C8_StopCancels ==
    /\ [](~isPlaying => frameRequests = {} /\ animationId = null /\ Silent)
    /\ [][steps' = steps + 1 /\ lastOp'.name \in {"render", "scheduleAmbience"} =>
              isPlaying /\ isPlaying']_vars

\* Playback was stopped by the space bar after the audio had been set up.
C8_Witness ==
    /\ lastOp.name = "keydown" /\ lastOp.arg = 32
    /\ introComplete /\ audioInitialized /\ ~isPlaying
    /\ frameSeq > 0

\* C10: a user gesture (canvas click or key press) made while the audio context
\* exists and is not running calls resume() again.
C10_ResumeRetried ==
    [][/\ steps' = steps + 1
       /\ lastOp'.name \in {"canvasClick", "keydown"}
       /\ audioInitialized /\ audioContext = "suspended"
       => effect'.resume]_vars

\* C11: a canvas click after the intro, while playing, calls addImpulse(), then
\* spawnClickRipple(x, y), then playDropSound only if the audio is ready: the
\* intensity rises by the click impulse up to 1, the first inactive slot holds a
\* click ripple at the click, and nodes are created only if the device runs. A
\* click while paused changes neither intensity nor pool nor timers, makes no call
\* and creates no node.
C11_ClickContract ==
    [][steps' = steps + 1 /\ lastOp'.name = "canvasClick" /\ introComplete =>
           IF isPlaying
           THEN /\ effect'.calls =
                       <<"addImpulse", "spawnClickRipple">>
                       \o IF audioContext = "running" THEN <<"playDropSound">>
                          ELSE << >>
                /\ intensity' = Min(FP, intensity + clickImpulseStrength)
                /\ \A i \in 1..Len(pool) :
                       IF i = getFromPool(pool)
                       THEN /\ pool'[i].active /\ pool'[i].isClick
                            /\ pool'[i].x = lastOp'.arg
                       ELSE pool'[i] = pool[i]
                /\ (effect'.created > 0) = (audioContext = "running")
           ELSE /\ UNCHANGED <<intensity, pool, spawnAccumulator, timers>>
                /\ effect'.calls = << >>
                /\ effect'.created = 0]_vars

\* A click has been handled while playing with the audio ready, and it found a slot.
C11_Witness ==
    /\ lastOp.name = "canvasClick"
    /\ introComplete /\ isPlaying
    /\ effect.calls = <<"addImpulse", "spawnClickRipple", "playDropSound">>
    /\ claimed # {}

\* C20: a frame advances the intensity, then the wind, then the ripple pool,
\* then the renderer draws (background, ripples, dither), and the per-frame
\* audio update comes last; the ripple update of the frame works with the
\* intensity and the wind time the frame has already advanced.
C20_FrameOrder ==
    [][steps' = steps + 1 /\ lastOp'.name = "render" =>
           /\ effect'.calls =
                  <<"updateState", "updateWind", "updateRipples",
                    "renderBackground", "renderRipples", "applyDither">>
                  \o IF isAudioReady(audioContext) THEN <<"updateRain">> ELSE << >>
           /\ intensity' = updateState(intensity, baselineIntensity, lastOp'.arg)
           /\ windTime' = updateWind(windTime, lastOp'.arg)
           /\ pool' = updateRipples(pool, spawnAccumulator, intensity', perm, windTime',
                                    lastOp'.arg, Width, Height, 0, AppDrops).pool]_vars

\* The positions of a call in the calls of the last step.
Called(calls, name) == {j \in 1..Len(calls) : calls[j] = name}

\* C21: the frame loop never waits for audio. A start() that starts playback
\* calls startVisuals() before initAudio() and resumeAudio(), so the first frame
\* is requested before any audio promise is awaited; whatever becomes of these
\* promises (initAudio() rejecting, resume() pending, resolving or rejecting),
\* a frame request is pending as long as playback runs; and a frame calls
\* updateRain() exactly when isAudioReady() holds.
C21_FramesNeverWait ==
    /\ [](isPlaying => animationId \in frameRequests)
    /\ [][steps' = steps + 1 /\ Called(effect'.calls, "startVisuals") # {} =>
              /\ \A j \in Called(effect'.calls, "initAudio")
                         \cup Called(effect'.calls, "resumeAudio") :
                     \E i \in Called(effect'.calls, "startVisuals") : i < j
              /\ isPlaying' /\ lastTime' = 0
              /\ animationId' \in frameRequests' \ frameRequests]_vars
    /\ [][steps' = steps + 1 /\ lastOp'.name \in {"resumeRejected", "resumeResolved"} =>
              UNCHANGED <<isPlaying, animationId, frameRequests>>]_vars
    /\ [][steps' = steps + 1 /\ lastOp'.name = "render" =>
              (Called(effect'.calls, "updateRain") # {} <=>
                   isAudioReady(audioContext))]_vars

\* A frame has run in a playback whose initAudio() rejected: no audio context,
\* no rain update, and the next frame is requested.
C21_Witness ==
    /\ lastOp.name = "render"
    /\ isPlaying /\ ~audioInitialized /\ audioContext = "none"
    /\ Called(effect.calls, "updateRain") = {}
    /\ animationId \in frameRequests

\* C23: the wind time never decreases except by resetWind(): a frame's
\* updateWind(delta), its delta not negative, adds delta * 1000 to it (delta in
\* the model's unit, a thousandth of the module's), a reseed's resetWind() sets
\* it to 0, and nothing else, the frame's getWind() calls included, changes it.
C23_WindTime ==
    [][steps' = steps + 1 =>
           IF Called(effect'.calls, "updateWind") # {}
           THEN /\ lastOp'.arg >= 0
                /\ windTime' = windTime + lastOp'.arg
                /\ windTime' >= windTime
           ELSE IF Called(effect'.calls, "resetWind") # {}
           THEN windTime' = 0
           ELSE windTime' = windTime]_vars

\* A reseed has set the wind time back to 0 after two frames had advanced it.
C23_Witness ==
    /\ Called(effect.calls, "resetWind") # {}
    /\ windTime = 0
    /\ lastTime > 0 /\ lastTime \notin FrameGaps

\* C26: whenever playback runs and the audio has been initialised, the rain
\* synth runs and the ambience scheduler's interval is set, after a stop()
\* followed by a start() as well.
C26_AudioFollowsPlayback ==
    isPlaying /\ audioInitialized =>
        /\ rain.isRunning /\ rain.noiseNode
        /\ ambience.isRunning /\ ambience.schedulerInterval
        /\ running.intervals > 0

\* C27: after a reseed has cleared the pool, no ripple becomes active because
\* of a click made before the reseed: the callback of a ring timer that runs
\* right after the reseed, its timer set by an earlier click, activates no slot.
C27_NoStaleRing ==
    [][/\ Called(effect.calls, "clearRipples") # {}
       /\ steps' = steps + 1
       /\ lastOp'.name = "spawnSecondaryRipple"
       => \A i \in 1..Len(pool) : pool'[i].active => pool[i].active]_vars

\* C28: at most one frame callback is pending at any time, the one animationId
\* names, and one is pending exactly when isPlaying holds; so whatever the
\* order of start, stop, toggle, the three ways into skipIntro and the frame
\* callbacks, no two render loops run side by side and none runs after stop().
C28_OneLoop ==
    /\ Cardinality(frameRequests) <= 1
    /\ isPlaying <=> frameRequests # {}
    /\ frameRequests \subseteq {animationId}
    /\ animationId # null => animationId = frameSeq
    /\ lastOp.name = "render" => isPlaying

\* The first frame has run in a playback that was started, stopped and started
\* again: the third request the browser handed out is the only one pending.
C28_Witness ==
    /\ lastOp.name = "render"
    /\ isPlaying
    /\ frameSeq = 3
    /\ frameRequests = {3}
    /\ elapsed \in FrameGaps

----------------------------------------------------------------------------
(* The audio modules on their own: their exported calls in any order       *)

\* The most calls and browser events one behaviour has.
MaxAudioOps == 5

\* A call of the audio modules: it is counted, and main.ts's variables and the
\* simulation stay as they are.
AudioCall(name, arg) ==
    /\ steps < MaxAudioOps
    /\ steps' = steps + 1
    /\ lastOp' = Op(name, arg)
    /\ UNCHANGED <<appVars, simulation, elapsed>>

CallInitAudio(state) ==
    LET out == initAudio(audioContext, buses, state)
    IN  /\ audioContext' = out.audioContext
        /\ buses' = out.buses
        /\ effect' = [noEffect EXCEPT !.created = out.created]
        /\ UNCHANGED <<resumePending, audioTime, synthVars, threw>>
        /\ AudioCall("initAudio", 0)

CallResumeAudio ==
    /\ resumePending' = (resumePending \/ resumeAudio(audioContext))
    /\ effect' = [noEffect EXCEPT !.resume = resumeAudio(audioContext)]
    /\ UNCHANGED <<audioContext, buses, audioTime, synthVars, threw>>
    /\ AudioCall("resumeAudio", 0)

CallInitRain ==
    LET out == initRain(audioContext, buses, rain, running)
    IN  /\ rain' = out.rain
        /\ running' = out.running
        /\ connected' = connected \cup out.connected
        /\ effect' = [noEffect EXCEPT !.created = out.created]
        /\ threw' = (threw \/ out.threw)
        /\ UNCHANGED <<engineVars, ambience>>
        /\ AudioCall("initRain", 0)

CallStopRain ==
    LET out == stopRain(rain, running)
    IN  /\ rain' = out.rain
        /\ running' = out.running
        /\ effect' = noEffect
        /\ UNCHANGED <<engineVars, ambience, connected, threw>>
        /\ AudioCall("stopRain", 0)

\* A call that only schedules parameter ramps.
CallRamps(name, params) ==
    /\ effect' = [noEffect EXCEPT !.params = params]
    /\ UNCHANGED <<engineVars, synthVars, threw>>
    /\ AudioCall(name, 0)

CallUpdateRain == CallRamps("updateRain", updateRain(audioContext, rain))

CallUpdateWindModulation ==
    CallRamps("updateWindModulation", updateWindModulation(audioContext, rain))

CallSetMasterVolume ==
    CallRamps("setMasterVolume", setMasterVolume(audioContext, buses))

CallSetRainVolume == CallRamps("setRainVolume", setRainVolume(audioContext, buses))

CallSetDropsVolume ==
    CallRamps("setDropsVolume", setDropsVolume(audioContext, buses))

CallTriggerClickExcitation ==
    LET out == triggerClickExcitation(audioContext, rain)
    IN  /\ rain' = out.rain
        /\ effect' = [noEffect EXCEPT !.params = out.params]
        /\ UNCHANGED <<engineVars, ambience, running, connected, threw>>
        /\ AudioCall("triggerClickExcitation", 0)

\* The callback of a timer triggerClickExcitation has set.
ExciteDecayTimer(id) ==
    /\ id \in rain.decayPending
    /\ rain' = [rain EXCEPT !.decayPending = @ \ {id}]
    /\ effect' = [noEffect EXCEPT
                    !.params = exciteDecay(audioContext, rain),
                    !.targetQ = exciteTargetQ(audioContext, rain, intensity)]
    /\ UNCHANGED <<engineVars, ambience, running, connected, threw>>
    /\ AudioCall("exciteDecay", id)

\* A call of playDropSound or playDripSound, given what it does.
CallTransient(name, out) ==
    /\ effect' = [noEffect EXCEPT !.created = out.created]
    /\ connected' = connected \cup out.connected
    /\ UNCHANGED <<engineVars, rain, ambience, running, threw>>
    /\ AudioCall(name, 0)

CallPlayDropSound(ping) ==
    CallTransient("playDropSound", playDropSound(audioContext, buses, ping))

CallPlayDripSound(ping) ==
    CallTransient("playDripSound", playDripSound(audioContext, buses, ping))

CallInitAmbience ==
    LET out == initAmbience(audioContext, buses, ambience, running)
    IN  /\ ambience' = out.ambience
        /\ running' = out.running
        /\ connected' = connected \cup out.connected
        /\ effect' = [noEffect EXCEPT !.created = out.created]
        /\ UNCHANGED <<engineVars, rain, threw>>
        /\ AudioCall("initAmbience", 0)

CallStopAmbience ==
    LET out == stopAmbience(ambience, running)
    IN  /\ ambience' = out.ambience
        /\ running' = out.running
        /\ effect' = noEffect
        /\ UNCHANGED <<engineVars, rain, connected, threw>>
        /\ AudioCall("stopAmbience", 0)

\* A browser event or a scheduler tick among the calls.
AudioEvent(event) ==
    /\ steps < MaxAudioOps
    /\ steps' = steps + 1
    /\ event
    /\ UNCHANGED elapsed

NextAudio ==
    \/ \E state \in ContextStates : CallInitAudio(state)
    \/ CallResumeAudio
    \/ CallInitRain
    \/ CallStopRain
    \/ CallUpdateRain
    \/ CallUpdateWindModulation
    \/ CallTriggerClickExcitation
    \/ \E id \in rain.decayPending : ExciteDecayTimer(id)
    \/ \E ping \in BOOLEAN : CallPlayDropSound(ping)
    \/ \E ping \in BOOLEAN : CallPlayDripSound(ping)
    \/ CallSetMasterVolume
    \/ CallSetRainVolume
    \/ CallSetDropsVolume
    \/ CallInitAmbience
    \/ CallStopAmbience
    \/ AudioEvent(\E d \in SchedulerDraws : SchedulerTick(d))
    \/ AudioEvent(ResumeResolved(AppClick, FALSE))
    \/ AudioEvent(ResumeRejected)
    \/ AudioEvent(ContextInterrupted)

SpecAudio == InitOneSeed /\ [][NextAudio]_vars

----------------------------------------------------------------------------
(* The ambience scheduler: ticks on time and late                          *)

\* The most ticks and device events one behaviour has.
MaxSchedulerOps == 6

\* How late a delayed tick finds the device clock: within a layer's lookahead,
\* and past every layer's shortest interval.
LateGaps == {450000, 12 * FP}

\* The draws of a tick: the two of the application, and a played sound with
\* the longest delay and interval.
LayerDraws == SchedulerDraws \cup {[late |-> 999999, gate |-> 0, interval |-> 999999]}

\* The state after intro and start(), the device suspended or running: the
\* first frame is requested, the rain runs and the scheduler's interval is set.
InitScheduler ==
    \E state \in ContextStates :
        LET engine == initAudio("none", {}, state)
            r == initRain(engine.audioContext, engine.buses, rainInitial, noneRunning)
            a == initAmbience(engine.audioContext, engine.buses, ambienceInitial,
                              r.running)
        IN  /\ intensity = baselineDefault
            /\ baselineIntensity = baselineDefault
            /\ windTime = 0
            /\ perm = seedNoise([w |-> 12345, h |-> 1])
            /\ permId = 0
            /\ pool = initRipplePool
            /\ spawnAccumulator = 0
            /\ timers = << >>
            /\ claimed = {}
            /\ born = [i \in 1..maxRipples |-> 0]
            /\ notified = << >>
            /\ twin = [pool |-> initRipplePool, spawnAccumulator |-> 0,
                       timers |-> << >>]
            /\ decided = noDecision
            /\ isPlaying = TRUE
            /\ animationId = 1
            /\ frameRequests = {1}
            /\ frameSeq = 1
            /\ audioInitialized = TRUE
            /\ introComplete = TRUE
            /\ lastTime = 0
            /\ introTimers = {}
            /\ firstDrop = << >>
            /\ awaiting = FALSE
            /\ audioContext = engine.audioContext
            /\ buses = engine.buses
            /\ resumePending = resumeAudio(engine.audioContext)
            /\ audioTime = 0
            /\ rain = r.rain
            /\ ambience = a.ambience
            /\ running = a.running
            /\ connected = r.connected \cup a.connected
            /\ effect = noEffect
            /\ threw = FALSE
            /\ InitRenderer
            /\ lastOp = Op("init", 0)
            /\ steps = 0
            /\ elapsed = 0

SchedulerCounted == steps < MaxSchedulerOps /\ steps' = steps + 1 /\ UNCHANGED elapsed

NextScheduler ==
    \/ SchedulerCounted /\ \E d \in LayerDraws : SchedulerTick(d)
    \/ SchedulerCounted /\ \E gap \in LateGaps, d \in LayerDraws : SchedulerCallback(gap, d)
    \/ SchedulerCounted /\ ResumeResolved(AppClick, FALSE)
    \/ SchedulerCounted /\ ContextInterrupted

SpecScheduler == InitScheduler /\ [][NextScheduler]_vars

\* The cursors of the three layers with the lookahead of each.
Cursors ==
    {[name |-> "thunder", next |-> "nextThunderTime", lookahead |-> FP],
     [name |-> "cricket", next |-> "nextCricketTime", lookahead |-> FP \div 2],
     [name |-> "drip", next |-> "nextDripTime", lookahead |-> FP \div 2]}

\* C22: a scheduler tick at device time now ends each layer's catch-up loop
\* (the cursor has moved by at most one turn's delay and interval), leaves each
\* cursor at or beyond its lookahead window (thunder now + 1, cricket and drip
\* now + 0.5) and never below where it was, and schedules every sound it plays
\* at a device time of at least now.
C22_SchedulerTick ==
    [][steps' = steps + 1 /\ lastOp'.name = "scheduleAmbience" =>
           /\ \A c \in Cursors :
                  /\ ambience'[c.next] >= lastOp'.arg + c.lookahead
                  /\ ambience'[c.next] >= ambience[c.next]
                  /\ ambience'[c.next] <=
                         Max(ambience[c.next], lastOp'.arg + 15 * FP) + 30 * FP
           /\ \A s \in effect'.sounds : s.at >= lastOp'.arg]_vars

\* A late tick, more than ten seconds into the run, found the cricket cursor
\* ahead of the clock inside its window and played the chirp there.
C22_Witness ==
    /\ lastOp.name = "scheduleAmbience"
    /\ audioTime > 10 * FP
    /\ \E s \in effect.sounds : s.layer = "cricket" /\ s.at > audioTime
    /\ ambience.nextCricketTime >= audioTime + FP


\* C9: while the engine has no context and no buses, every audio call returns
\* without throwing, creates and connects no node, schedules nothing and leaves
\* the rain synth not running; and a synth only ever connects to nodes the engine
\* has created.
C9_NotReadyNoOp ==
    /\ audioContext = "none" =>
           /\ buses = {}
           /\ ~threw
           /\ effect.created = 0 /\ effect.params = 0 /\ effect.sounds = {}
           /\ connected = {}
           /\ ~rain.isRunning
           /\ \A kind \in {"rainNoise", "rainLFOs", "windNoise", "windLFO"} :
                  running[kind] = 0
    /\ connected \subseteq buses

\* initRain has been called, and other calls before it, with no context.
C9_Witness ==
    /\ audioContext = "none"
    /\ lastOp.name = "initRain"
    /\ steps = MaxAudioOps

\* The shortest interval of each layer, as the comments of scheduleAmbience
\* give it: thunder 10 s, cricket 1 s, drip 2 s.
MinimumInterval == [thunder |-> 10 * FP, cricket |-> FP, drip |-> 2 * FP]

\* C30: two consecutive scheduling decisions of a layer lie at least the
\* layer's shortest interval apart in device time (thunder 10 s, cricket 1 s,
\* drip 2 s), whether the ticks come on time or late.
C30_Spacing ==
    \A layer \in DOMAIN decided :
        decided[layer].previous >= 0 =>
            decided[layer].last - decided[layer].previous >= MinimumInterval[layer]

\* A drip was decided for exactly two seconds after the one before it, by a
\* tick that found the cursor inside its window.
C30_Witness ==
    /\ lastOp.name = "scheduleAmbience"
    /\ decided["drip"].previous >= 0
    /\ decided["drip"].last = decided["drip"].previous + 2 * FP
    /\ decided["drip"].last > audioTime

----------------------------------------------------------------------------
(* The click excitation of the rain synth, its timer, stopRain and initRain *)

\* A click's impulse on the intensity between the calls of the rain synth.
ExciteImpulse ==
    /\ steps < MaxAudioOps
    /\ steps' = steps + 1
    /\ intensity' = addImpulse(intensity, clickImpulseStrength)
    /\ effect' = noEffect
    /\ lastOp' = Op("addImpulse", clickImpulseStrength)
    /\ UNCHANGED <<baselineIntensity, windVars, poolVars, renderVars, twin, decided,
                   appVars, engineVars, synthVars, threw, elapsed>>

NextExcite ==
    \/ CallTriggerClickExcitation
    \/ \E id \in rain.decayPending : ExciteDecayTimer(id)
    \/ CallStopRain
    \/ CallInitRain
    \/ CallUpdateRain
    \/ ExciteImpulse
    \/ AudioEvent(ContextInterrupted)

SpecExcite == InitScheduler /\ [][NextExcite]_vars

\* C24: at most one callback of the excitation's decay timer is pending, the
\* one the module holds; a trigger that passes its guards cancels the pending
\* one and sets a new one; the callback sends the resonators to the Q the
\* intensity gives as it fires; and stopRain() leaves none pending, so none
\* changes a resonator's Q while the rain is stopped.
C24_OneDecayCallback ==
    /\ [](/\ Cardinality(rain.decayPending) <= 1
          /\ rain.decayPending \subseteq {rain.exciteDecayTimeout}
          /\ ~rain.isRunning => rain.decayPending = {})
    /\ [][steps' = steps + 1 /\ lastOp'.name = "triggerClickExcitation"
              /\ rain.isRunning /\ rain.exciteGain =>
              /\ rain'.decayPending = {rain'.exciteDecayTimeout}
              /\ rain'.exciteDecayTimeout \notin rain.decayPending
              /\ rain'.exciteDecayTimeout # null]_vars
    /\ [][steps' = steps + 1 /\ lastOp'.name = "exciteDecay" =>
              /\ rain.isRunning
              /\ effect'.params = rain.resonators
              /\ effect'.targetQ = baseQ * FP + Mul((maxQ - baseQ) * FP, intensity)
              /\ rain'.decayPending = {}]_vars
    /\ [][steps' = steps + 1 /\ lastOp'.name = "stopRain" =>
              rain'.decayPending = {} /\ rain'.exciteDecayTimeout = null]_vars

\* The callback of a second trigger has fired, after two impulses had raised
\* the intensity, and has sent the resonators to the Q of the raised intensity.
C24_Witness ==
    /\ lastOp.name = "exciteDecay" /\ lastOp.arg = 2
    /\ intensity = Min(FP, baselineDefault + 2 * clickImpulseStrength)
    /\ effect.targetQ = baseQ * FP + Mul((maxQ - baseQ) * FP, intensity)
    /\ rain.decayPending = {}

----------------------------------------------------------------------------
(* Playback paused and resumed between frames                              *)

\* The most key presses and frames one behaviour has.
MaxPauseOps == 6

PauseCounted == steps < MaxPauseOps /\ steps' = steps + 1

\* The space bar toggles the playback, and frames run; the time a frame's gap
\* adds to the time of the frame before it includes the time spent paused.
NextPause ==
    \/ PauseCounted /\ UNCHANGED elapsed /\ \E state \in ContextStates : KeySpace(state)
    \/ /\ PauseCounted
       /\ \E id \in frameRequests, gap \in FrameGaps :
              Render(id, gap, 0, AppDrops, FALSE)

SpecPause == InitScheduler /\ [][NextPause]_vars

\* C29: the time spent paused never enters the simulation. start() sets
\* lastTime to 0, the first frame after it has delta 0 whatever time has gone
\* by, and every later frame's delta is its timestamp less the timestamp of
\* the frame before it, which is not negative; the intensity and the wind
\* time advance by that delta.
C29_PausedTime ==
    /\ [][steps' = steps + 1 /\ Called(effect'.calls, "startVisuals") # {} =>
              lastTime' = 0]_vars
    /\ [][steps' = steps + 1 /\ lastOp'.name = "render" =>
              /\ IF lastTime = 0 THEN lastOp'.arg = 0
                 ELSE /\ lastTime = elapsed
                      /\ lastOp'.arg = elapsed' - elapsed
                      /\ lastOp'.arg >= 0
              /\ lastTime' = elapsed'
              /\ windTime' = windTime + lastOp'.arg
              /\ intensity' = updateState(intensity, baselineIntensity, lastOp'.arg)]_vars

\* The first frame after a pause: two frames had run, playback was stopped and
\* started again, and the frame that followed had delta 0 and left the wind
\* time where the second frame had, behind the time the frames span.
C29_Witness ==
    /\ lastOp.name = "render" /\ lastOp.arg = 0
    /\ frameSeq = 5
    /\ windTime \in FrameGaps
    /\ elapsed > windTime + (FP + 30) \div 60

============================================================================
